---- MODULE Spec2Model ----
(***************************************************************************)
(* Job-listing extraction engine: the generic extract run of               *)
(* extractors/base_extractor.py and extractors/base2_extractor.py, its     *)
(* dedupe-merge, its two extraction passes (the inline page.evaluate       *)
(* script and extract_job_links) and their selector cascades.              *)
(*                                                                         *)
(* Text (textContent, href) is a sequence of one-character strings, so     *)
(* that trim() and the /\d+/ match are computed, not assumed.              *)
(***************************************************************************)
EXTENDS Integers, Sequences, FiniteSets, TLC

VARIABLES
    variant,        \* the extract that runs: "base", "base2" or "capgemini"
    pc,             \* position of the run inside extract
    max_pages,      \* extract's max_pages argument
    current_page,   \* the loop's page index
    attempt,        \* base2: index of the initial-load attempt (0-based)
    jobs,           \* the accumulator (jobs / all_jobs)
    hist,           \* concatenation of the page_jobs lists merged so far
    passes,         \* number of extraction passes run
    advanceCalls,   \* number of try_next_page calls
    nextFound,      \* result of the last try_next_page call ("none" before)
    pageBound,      \* 'page' in locals()
    pageOpen,       \* the page was created and not closed
    contextOpen,    \* base2: the context was created (never closed by extract)
    raisedAt,       \* the step whose exception entered the except handler
    accAtRaise,     \* the accumulator when that exception was raised
    ret,            \* "none" | "list" | "raised": how extract ended
    retval,         \* the list extract returned
    screenshot,     \* the handler's page.screenshot: "none" | "saved" | "failed"
    handlerClose,   \* the handler's page.close(): "none" | "closed" | "raised"
    readyChecks,    \* number of pages whose readiness was checked
    notReady,       \* number of pages given up as not ready after the retry
    settled,        \* no control was activated since the last settle delay
    lastPass,       \* the list the latest extraction pass returned
    mL,             \* merge law: the list L being merged
    mOnce,          \* merge law: merge([], L)
    mTwice,         \* merge law: merge(merge([], L), L)
    mStep,          \* merge law: number of merges applied (0..2)
    pKind,          \* extraction pass: "inline" (page.evaluate of extract) or
                    \* "links" (extract_job_links)
    pContainers,    \* extraction pass: the containers the script iterates over
    pIdx,           \* extraction pass: containers processed so far
    pJobs,          \* extraction pass: jobs (array, or Set in insertion order)
    pAcc,           \* extraction pass: the caller's accumulator after the merge
    pPc,            \* extraction pass: "loop" | "returned" | "merged" | "off"
    pFault,         \* extraction pass: position of the container whose processing throws, 0 for none
    cRole,          \* cascade: the role resolved
    cCont,          \* cascade: the container resolved against
    cInline,        \* cascade: element the inline script's loop ends with
    cSafe,          \* cascade: element extract_job_links' lookup ends with
    cStep,          \* cascade: lookups done (0..2)
    fPage,          \* container search: the page's elements in document order
    fBad,           \* container search: the malformed container patterns
    fInline,        \* container search: what the inline script's loop yields
    fLinks,         \* container search: what findJobElements returns
    fStep,          \* container search: searches done (0..2)
    rPc,            \* readiness: position inside extract_job_links
    rCalls,         \* readiness: wait_for_page_load calls made
    rIdle,          \* readiness: outcome of the last call's idle wait
    rSel,           \* readiness: the last call's wait_for_selector outcomes
    rContent,       \* readiness: outcome of the last call's page.content()
    rReady,         \* readiness: how the last call ended
    rOut,           \* readiness: how extract_job_links ended
    rLog,           \* readiness: detector results, reloads and evaluates, in order
    rDoc,           \* readiness: number of navigations the page went through
    dCompanies,     \* driver: the configured companies' extractors, in order
    dIdx,           \* driver: position of the company being processed
    dPc,            \* driver: position inside main's loop body
    dStarted,       \* driver: the companies whose processing was started
    dFailed,        \* driver: the companies whose processing raised
    dHandovers,     \* driver: per company, who called append_jobs with its records
    dEngine,        \* driver: per company, the extractor it was given: "none" | "specific" | "base"
    dUrl,           \* driver: per company, the target of its run's first goto: "none" | "given" | "other"
    dRejected,      \* driver: the companies whose extract(full_url, max_pages=...) call was not accepted
    dCloses,        \* driver: scraper.close() calls made
    dNoUrl,         \* driver: the companies whose configuration has no base_url
    nCtls,          \* try_next_page: each candidate's outcome on the page
    nIdx,           \* try_next_page: the candidate the loop is at
    nActRaised,     \* try_next_page: an activation raised during the call
    nResult,        \* try_next_page: "none" | "true" | "false" | "raised"
    kPage,          \* advance: per selector group, the control the page holds for it
    kIdx,           \* advance: the selector group the loop is at
    kOps,           \* advance: the goto / click / idle-wait operations done, in order
    kResult,        \* advance: what try_next_page returned
    qActive,        \* numbered advance: page number of the widget's active item, 0 when none
    qLinks,         \* numbered advance: the page's links, in document order
    qPc,            \* numbered advance: position inside try_next_page
    qStartrow,      \* numbered advance: next_startrow as computed
    qFound,         \* numbered advance: position of the link query_selector returned, 0 for None
    qClicked,       \* numbered advance: position of the link that was clicked, 0 when none
    qResult,        \* numbered advance: what try_next_page returned
    sFile,          \* export sink: the lines of the CSV file, header first
    sXlsx,          \* export sink: the rows of the Excel file as last converted
    sCalls          \* export sink: the append_jobs calls made, as <<jobs, company>>

runVars == <<variant, pc, max_pages, current_page, attempt, jobs, hist, passes,
             advanceCalls, nextFound, pageBound, pageOpen, contextOpen,
             raisedAt, accAtRaise, ret, retval, screenshot, handlerClose,
             readyChecks, settled, lastPass, notReady>>

mergeVars == <<mL, mOnce, mTwice, mStep>>

passVars == <<pKind, pContainers, pIdx, pJobs, pAcc, pPc, pFault>>

cascadeVars == <<cRole, cCont, cInline, cSafe, cStep>>

findVars == <<fPage, fBad, fInline, fLinks, fStep>>

readyVars == <<rPc, rCalls, rIdle, rSel, rContent, rReady, rOut, rLog, rDoc>>

driverVars == <<dCompanies, dIdx, dPc, dStarted, dFailed, dHandovers, dEngine, dUrl,
               dRejected, dCloses, dNoUrl>>

nextVars == <<nCtls, nIdx, nActRaised, nResult>>

controlVars == <<kPage, kIdx, kOps, kResult>>

numberedVars == <<qActive, qLinks, qPc, qStartrow, qFound, qClicked, qResult>>

sinkVars == <<sFile, sXlsx, sCalls>>

\* everything the run of extract leaves alone
nonRunVars == <<mergeVars, passVars, cascadeVars, findVars, readyVars, driverVars, nextVars, controlVars, numberedVars, sinkVars>>

\* everything the merge law leaves alone
nonMergeVars == <<runVars, passVars, cascadeVars, findVars, readyVars, driverVars, nextVars, controlVars, numberedVars, sinkVars>>

\* everything an extraction pass leaves alone
nonPassVars == <<runVars, mergeVars, cascadeVars, findVars, readyVars, driverVars, nextVars, controlVars, numberedVars, sinkVars>>

\* everything a cascade lookup leaves alone
nonCascadeVars == <<runVars, mergeVars, passVars, findVars, readyVars, driverVars, nextVars, controlVars, numberedVars, sinkVars>>

\* everything the container search leaves alone
nonFindVars == <<runVars, mergeVars, passVars, cascadeVars, readyVars, driverVars, nextVars, controlVars, numberedVars, sinkVars>>

\* everything the readiness check leaves alone
nonReadyVars == <<runVars, mergeVars, passVars, cascadeVars, findVars, driverVars, nextVars, controlVars, numberedVars, sinkVars>>

\* everything the driver leaves alone
nonDriverVars == <<runVars, mergeVars, passVars, cascadeVars, findVars, readyVars, nextVars, controlVars, numberedVars, sinkVars>>

\* everything try_next_page leaves alone
nonNextVars == <<runVars, mergeVars, passVars, cascadeVars, findVars, readyVars, driverVars, controlVars, numberedVars, sinkVars>>

\* everything but the advance-in-detail variables
nonControlVars == <<runVars, mergeVars, passVars, cascadeVars, findVars, readyVars, driverVars, nextVars, numberedVars, sinkVars>>

\* everything but the numbered-advance variables
nonNumberedVars == <<runVars, mergeVars, passVars, cascadeVars, findVars, readyVars, driverVars, nextVars, controlVars, sinkVars>>

\* everything but the export-sink variables
nonSinkVars == <<runVars, mergeVars, passVars, cascadeVars, findVars, readyVars, driverVars, nextVars, controlVars, numberedVars>>

vars == <<runVars, mergeVars, passVars, cascadeVars, findVars, readyVars, driverVars, nextVars, controlVars, numberedVars, sinkVars>>

(***************************************************************************)
(* Bounds                                                                  *)
(***************************************************************************)
MaxPagesBound == 2
MaxPageJobs == 2
NNextSel == 3
MaxMergeLen == 3
NSel == 2
MaxDesc == 2
MaxContainers == 2
NContSel == 2
MaxPageEls == 2
NReadyPat == 2
MaxCompanies == 2
MaxLinks == 2
MaxSinkCalls == 2
MaxSinkJobs == 2

(***************************************************************************)
(* Text helpers                                                            *)
(***************************************************************************)
Digits == {"0", "1", "2", "3", "4", "5", "6", "7", "8", "9"}

RECURSIVE DigitRun(_)
\* the maximal run of digits at the head of s
DigitRun(s) ==
    IF s = <<>> \/ Head(s) \notin Digits THEN <<>>
    ELSE <<Head(s)>> \o DigitRun(Tail(s))

RECURSIVE JobIdOf(_)
\* url.match(/\d+/): the first maximal run of digits, '' when there is none
JobIdOf(url) ==
    IF url = <<>> THEN <<>>
    ELSE IF Head(url) \in Digits THEN DigitRun(url)
    ELSE JobIdOf(Tail(url))

RECURSIVE TrimStart(_)
TrimStart(s) ==
    IF s # <<>> /\ Head(s) = " " THEN TrimStart(Tail(s)) ELSE s

RECURSIVE TrimEnd(_)
TrimEnd(s) ==
    IF s # <<>> /\ s[Len(s)] = " " THEN TrimEnd(SubSeq(s, 1, Len(s) - 1)) ELSE s

\* String.prototype.trim()
Trim(s) == TrimEnd(TrimStart(s))

RECURSIVE Concat(_)
\* the texts of a sequence of elements, joined
Concat(els) ==
    IF els = <<>> THEN <<>> ELSE Head(els).text \o Concat(Tail(els))

(***************************************************************************)
(* Records                                                                 *)
(***************************************************************************)
\* jobs.push({ title, location, url, job_id }) of the inline script
InlineRecord(title, location, url) ==
    [title |-> title, location |-> location, url |-> url, job_id |-> JobIdOf(url)]

\* JSON.stringify({url, title, location}) of extract_job_links
LinkRecord(title, location, url) ==
    [url |-> url, title |-> title, location |-> location]

\* the record extract_jobs_from_page of the Capgemini adapter builds
CapRecord(title, location, url) ==
    [title |-> title, url |-> url, location |-> location, experience |-> <<>>,
     contract_type |-> <<>>, company |-> "Capgemini"]

\* the records an extraction pass of a run may return: trimmed non-empty
\* title, and a url or a location
RunTitles == {<<"a">>, <<"b">>}
RunLocations == {<<>>, <<"x">>}
RunUrls == {<<"u", "1">>}

RunRecords(v) ==
    { CASE v = "base" -> InlineRecord(t, l, u)
        [] v = "base2" -> LinkRecord(t, l, u)
        [] OTHER -> CapRecord(t, l, u) :
        t \in RunTitles, l \in RunLocations, u \in RunUrls }

RECURSIVE SeqsUpTo(_, _)
SeqsUpTo(S, n) ==
    IF n = 0 THEN {<<>>}
    ELSE LET shorter == SeqsUpTo(S, n - 1)
         IN shorter \cup { Append(s, x) : s \in { t \in shorter : Len(t) = n - 1 }, x \in S }

InSeq(x, s) == \E i \in 1..Len(s) : s[i] = x

NoDup(s) == \A i, j \in 1..Len(s) : s[i] = s[j] => i = j

\* what one extraction pass can hand to the merge: the inline script pushes
\* one record per container (repeats possible), extract_job_links returns
\* the members of a Set
PageLists(v) ==
    IF v = "base2" THEN { s \in SeqsUpTo(RunRecords(v), MaxPageJobs) : NoDup(s) }
    ELSE SeqsUpTo(RunRecords(v), MaxPageJobs)

(***************************************************************************)
(* Dedupe-merge: for job in page_jobs: if job not in jobs: jobs.append(job)*)
(***************************************************************************)
\* mutant: the `not in` test dropped, every record is appended
MergeOneAlways(acc, job) == Append(acc, job)

\* one iteration of the merge loop
MergeOne(acc, job) == IF InSeq(job, acc) THEN acc ELSE Append(acc, job)

RECURSIVE Merge(_, _)
Merge(acc, page_jobs) ==
    IF page_jobs = <<>> THEN acc
    ELSE Merge(MergeOne(acc, Head(page_jobs)), Tail(page_jobs))

(***************************************************************************)
(* try_next_page: the cascade over next_page_selectors.  A candidate's     *)
(* outcome on the current page is one of                                   *)
(*   "absent"   query_selector returned None, or the control is hidden     *)
(*   "raise"    query_selector / is_visible / get_attribute raised         *)
(*   "ok"       the control was activated and the idle wait returned       *)
(*   "act_raise" goto / click / the idle wait raised                       *)
(* Every exception is caught by the bare except and the loop continues.    *)
(***************************************************************************)
CtlOutcomes == {"absent", "raise", "ok", "act_raise"}

NextControls == [1..NNextSel -> CtlOutcomes]

TryNextPage(ctls) == \E i \in 1..NNextSel : ctls[i] = "ok"

(***************************************************************************)
(* The run: extract(base_url, max_pages)                                   *)
(***************************************************************************)
Generic == {"base", "base2"}

RunInit ==
    /\ variant \in Generic \cup {"capgemini"}
    /\ max_pages \in 1..MaxPagesBound
    /\ pc = "start"
    /\ current_page = 1
    /\ attempt = 0
    /\ jobs = <<>>
    /\ hist = <<>>
    /\ passes = 0
    /\ advanceCalls = 0
    /\ nextFound = "none"
    /\ pageBound = FALSE
    /\ pageOpen = FALSE
    /\ contextOpen = FALSE
    /\ raisedAt = "none"
    /\ accAtRaise = <<>>
    /\ ret = "none"
    /\ retval = <<>>
    /\ screenshot = "none"
    /\ handlerClose = "none"
    /\ readyChecks = 0
    /\ notReady = 0
    /\ settled = TRUE
    /\ lastPass = <<>>

\* an await raised inside the try block: control enters `except Exception`
Raise(step) ==
    /\ pc' = "handler"
    /\ raisedAt' = step
    /\ accAtRaise' = jobs

\* base: page = await self.scraper.browser.new_page()
NewPage ==
    /\ variant = "base" /\ pc = "start"
    /\ \/ /\ pc' = "goto"
          /\ pageBound' = TRUE /\ pageOpen' = TRUE
          /\ UNCHANGED <<raisedAt, accAtRaise>>
       \/ /\ Raise("new_page")
          /\ UNCHANGED <<pageBound, pageOpen>>
    /\ UNCHANGED nonRunVars
    /\ UNCHANGED <<notReady, readyChecks, settled, lastPass>>
    /\ UNCHANGED <<screenshot, handlerClose>>
    /\ UNCHANGED <<variant, max_pages, current_page, attempt, jobs, hist, passes,
                   advanceCalls, nextFound, contextOpen, ret, retval>>

\* base2: context = await browser.new_context(...); page = await context.new_page()
NewContext ==
    /\ variant \in {"base2", "capgemini"} /\ pc = "start"
    /\ \/ /\ pc' = "new_page" /\ contextOpen' = TRUE
          /\ UNCHANGED <<raisedAt, accAtRaise>>
       \/ /\ Raise("new_context")
          /\ UNCHANGED contextOpen
    /\ UNCHANGED nonRunVars
    /\ UNCHANGED <<notReady, readyChecks, settled, lastPass>>
    /\ UNCHANGED <<screenshot, handlerClose>>
    /\ UNCHANGED <<variant, max_pages, current_page, attempt, jobs, hist, passes,
                   advanceCalls, nextFound, pageBound, pageOpen, ret, retval>>

ContextNewPage ==
    /\ variant \in {"base2", "capgemini"} /\ pc = "new_page"
    /\ \/ /\ pc' = "goto"
          /\ pageBound' = TRUE /\ pageOpen' = TRUE
          /\ UNCHANGED <<raisedAt, accAtRaise>>
       \/ /\ Raise("new_page")
          /\ UNCHANGED <<pageBound, pageOpen>>
    /\ UNCHANGED nonRunVars
    /\ UNCHANGED <<notReady, readyChecks, settled, lastPass>>
    /\ UNCHANGED <<screenshot, handlerClose>>
    /\ UNCHANGED <<variant, max_pages, current_page, attempt, jobs, hist, passes,
                   advanceCalls, nextFound, contextOpen, ret, retval>>

\* base: await page.goto(base_url); wait_for_load_state('networkidle'); the
\* container probe loop that follows swallows every exception and its result
\* (containers) is never read; current_page = 1 and the loop is entered
\* (1 <= max_pages)
Goto ==
    /\ variant = "base" /\ pc = "goto"
    /\ \/ /\ pc' = "idle0" /\ UNCHANGED <<raisedAt, accAtRaise>>
       \/ Raise("goto")
    /\ UNCHANGED nonRunVars
    /\ UNCHANGED <<notReady, readyChecks, settled, lastPass>>
    /\ UNCHANGED <<screenshot, handlerClose>>
    /\ UNCHANGED <<variant, max_pages, current_page, attempt, jobs, hist, passes,
                   advanceCalls, nextFound, pageBound, pageOpen, contextOpen,
                   ret, retval>>

InitialIdle ==
    /\ variant = "base" /\ pc = "idle0"
    /\ \/ /\ pc' = IF current_page <= max_pages THEN "idle" ELSE "close"
          /\ UNCHANGED <<raisedAt, accAtRaise>>
       \/ Raise("idle0")
    /\ UNCHANGED nonRunVars
    /\ UNCHANGED <<notReady, readyChecks, settled, lastPass>>
    /\ UNCHANGED <<screenshot, handlerClose>>
    /\ UNCHANGED <<variant, max_pages, current_page, attempt, jobs, hist, passes,
                   advanceCalls, nextFound, pageBound, pageOpen, contextOpen,
                   ret, retval>>

MaxRetries == 3

\* base2: one attempt of the initial-load retry loop: goto, then
\* wait_for_selector, and the idle wait when that raised
LoadAttempt ==
    /\ variant = "base2" /\ pc = "goto"
    /\ \E gotoOk, selOk, idleOk \in BOOLEAN :
          IF gotoOk /\ (selOk \/ idleOk)
          THEN /\ pc' = IF current_page <= max_pages THEN "ready" ELSE "close"
               /\ UNCHANGED <<attempt, raisedAt, accAtRaise>>
          ELSE IF attempt = MaxRetries - 1
          THEN /\ Raise("goto")
               /\ UNCHANGED attempt
          ELSE /\ attempt' = attempt + 1
               /\ UNCHANGED <<pc, raisedAt, accAtRaise>>
    /\ UNCHANGED nonRunVars
    /\ UNCHANGED <<notReady, readyChecks, settled, lastPass>>
    /\ UNCHANGED <<screenshot, handlerClose>>
    /\ UNCHANGED <<variant, max_pages, current_page, jobs, hist, passes,
                   advanceCalls, nextFound, pageBound, pageOpen, contextOpen,
                   ret, retval>>

\* mutant: the loop body without its idle wait
IdleWaitSkipped ==
    /\ variant = "base" /\ pc = "idle"
    /\ pc' = "extract"
    /\ UNCHANGED nonRunVars
    /\ UNCHANGED <<notReady, readyChecks, settled, lastPass, raisedAt, accAtRaise>>
    /\ UNCHANGED <<screenshot, handlerClose>>
    /\ UNCHANGED <<variant, max_pages, current_page, attempt, jobs, hist, passes,
                   advanceCalls, nextFound, pageBound, pageOpen, contextOpen,
                   ret, retval>>

\* base: await page.wait_for_load_state('networkidle'); sleep(2) at the
\* loop head: the readiness check of the page the pass is about to read
IdleWait ==
    /\ variant = "base" /\ pc = "idle"
    /\ \/ /\ pc' = "extract"
          /\ readyChecks' = readyChecks + 1
          /\ UNCHANGED <<raisedAt, accAtRaise>>
       \/ /\ Raise("idle")
          /\ UNCHANGED readyChecks
    /\ UNCHANGED nonRunVars
    /\ UNCHANGED <<settled, lastPass, notReady>>
    /\ UNCHANGED <<screenshot, handlerClose>>
    /\ UNCHANGED <<variant, max_pages, current_page, attempt, jobs, hist, passes,
                   advanceCalls, nextFound, pageBound, pageOpen, contextOpen,
                   ret, retval>>

\* mutant: the break test written `>` instead of `>=`
MergePassLateBreak(page_jobs) ==
    /\ jobs' = Merge(jobs, page_jobs)
    /\ hist' = hist \o page_jobs
    /\ lastPass' = page_jobs
    /\ passes' = passes + 1
    /\ pc' = IF current_page > max_pages THEN "close" ELSE "try_next"

\* the extraction pass returned page_jobs: merge, then
\* `if current_page >= max_pages: break`
MergePass(page_jobs) ==
    /\ jobs' = Merge(jobs, page_jobs)
    /\ hist' = hist \o page_jobs
    /\ lastPass' = page_jobs
    /\ passes' = passes + 1
    /\ pc' = IF current_page >= max_pages THEN "close" ELSE "try_next"

\* base: page_jobs = await page.evaluate(...), which may raise
\* base2: jobs = await self.extract_job_links(page), which returns [] on
\*        every failure
ExtractPass ==
    /\ variant \in Generic /\ pc = "extract"
    /\ \/ /\ \E page_jobs \in PageLists(variant) : MergePass(page_jobs)
          /\ UNCHANGED <<raisedAt, accAtRaise>>
       \/ /\ variant = "base"
          /\ Raise("evaluate")
          /\ UNCHANGED <<jobs, hist, passes, lastPass>>
    /\ UNCHANGED nonRunVars
    /\ UNCHANGED <<notReady, readyChecks, settled>>
    /\ UNCHANGED <<screenshot, handlerClose>>
    /\ UNCHANGED <<variant, max_pages, current_page, attempt, advanceCalls,
                   nextFound, pageBound, pageOpen, contextOpen, ret, retval>>

\* mutant: current_page += 1 placed before the `if not next_page_found` test
AdvanceAlwaysIncrements ==
    /\ variant \in Generic /\ pc = "try_next"
    /\ advanceCalls' = advanceCalls + 1
    /\ current_page' = current_page + 1
    /\ \E ctls \in NextControls :
          IF TryNextPage(ctls)
          THEN /\ nextFound' = "true"
               /\ settled' = FALSE
               /\ pc' = "settle"
          ELSE /\ nextFound' = "false"
               /\ pc' = "close"
               /\ UNCHANGED settled
    /\ UNCHANGED nonRunVars
    /\ UNCHANGED <<notReady, readyChecks, lastPass>>
    /\ UNCHANGED <<screenshot, handlerClose>>
    /\ UNCHANGED <<variant, max_pages, attempt, jobs, hist, passes, pageBound,
                   pageOpen, contextOpen, raisedAt, accAtRaise, ret, retval>>

\* mutant: the page index is not advanced after a successful advance
AdvanceKeepsIndex ==
    /\ variant \in Generic /\ pc = "try_next"
    /\ advanceCalls' = advanceCalls + 1
    /\ \E ctls \in NextControls :
          IF TryNextPage(ctls)
          THEN /\ nextFound' = "true"
               /\ UNCHANGED current_page
               /\ settled' = FALSE
               /\ pc' = "settle"
          ELSE /\ nextFound' = "false"
               /\ pc' = "close"
               /\ UNCHANGED <<current_page, settled>>
    /\ UNCHANGED nonRunVars
    /\ UNCHANGED <<notReady, readyChecks, lastPass>>
    /\ UNCHANGED <<screenshot, handlerClose>>
    /\ UNCHANGED <<variant, max_pages, attempt, jobs, hist, passes, pageBound,
                   pageOpen, contextOpen, raisedAt, accAtRaise, ret, retval>>

\* next_page_found = await self.try_next_page(page); break when false, else
\* current_page += 1; a control was activated and the settle delay is due
Advance ==
    /\ variant \in Generic /\ pc = "try_next"
    /\ advanceCalls' = advanceCalls + 1
    /\ \E ctls \in NextControls :
          IF TryNextPage(ctls)
          THEN /\ nextFound' = "true"
               /\ current_page' = current_page + 1
               /\ settled' = FALSE
               /\ pc' = "settle"
          ELSE /\ nextFound' = "false"
               /\ pc' = "close"
               /\ UNCHANGED <<current_page, settled>>
    /\ UNCHANGED nonRunVars
    /\ UNCHANGED <<notReady, readyChecks, lastPass>>
    /\ UNCHANGED <<screenshot, handlerClose>>
    /\ UNCHANGED <<variant, max_pages, attempt, jobs, hist, passes, pageBound,
                   pageOpen, contextOpen, raisedAt, accAtRaise, ret, retval>>

\* mutant: the sleep after a successful advance left out
SettleSkipped ==
    /\ variant \in Generic /\ pc = "settle"
    /\ pc' = IF current_page <= max_pages
             THEN (IF variant = "base" THEN "idle" ELSE "ready")
             ELSE "close"
    /\ UNCHANGED nonRunVars
    /\ UNCHANGED <<notReady, readyChecks, settled, lastPass>>
    /\ UNCHANGED <<screenshot, handlerClose>>
    /\ UNCHANGED <<variant, max_pages, current_page, attempt, jobs, hist, passes,
                   advanceCalls, nextFound, pageBound, pageOpen, contextOpen,
                   raisedAt, accAtRaise, ret, retval>>

\* await asyncio.sleep(5) after current_page += 1, then the while condition
\* is tested again
Settle ==
    /\ variant \in Generic /\ pc = "settle"
    /\ settled' = TRUE
    /\ pc' = IF current_page <= max_pages
             THEN (IF variant = "base" THEN "idle" ELSE "ready")
             ELSE "close"
    /\ UNCHANGED nonRunVars
    /\ UNCHANGED <<notReady, readyChecks, lastPass>>
    /\ UNCHANGED <<screenshot, handlerClose>>
    /\ UNCHANGED <<variant, max_pages, current_page, attempt, jobs, hist, passes,
                   advanceCalls, nextFound, pageBound, pageOpen, contextOpen,
                   raisedAt, accAtRaise, ret, retval>>

\* mutant: a page still not ready after the retry ends the run
LinksReadyRaises ==
    /\ variant = "base2" /\ pc = "ready"
    /\ readyChecks' = readyChecks + 1
    /\ \E first, second \in {"true", "false"}, reloadOk \in BOOLEAN :
          IF first = "true" \/ (reloadOk /\ second = "true")
          THEN /\ pc' = "extract"
               /\ UNCHANGED <<jobs, hist, passes, lastPass, notReady, raisedAt, accAtRaise>>
          ELSE /\ notReady' = notReady + 1
               /\ Raise("ready")
               /\ UNCHANGED <<jobs, hist, passes, lastPass>>
    /\ UNCHANGED nonRunVars
    /\ UNCHANGED settled
    /\ UNCHANGED <<screenshot, handlerClose>>
    /\ UNCHANGED <<variant, max_pages, current_page, attempt, advanceCalls,
                   nextFound, pageBound, pageOpen, contextOpen, ret, retval>>

\* base2: the head of extract_job_links: the readiness check of the page
\* (wait_for_page_load, a reload and a second call when the first returned
\* false).  A page found ready goes on to the evaluate; otherwise
\* extract_job_links returns [] (also when the reload raised: its own
\* except) and the caller merges that empty list
LinksReady ==
    /\ variant = "base2" /\ pc = "ready"
    /\ readyChecks' = readyChecks + 1
    /\ \E first, second \in {"true", "false"}, reloadOk \in BOOLEAN :
          IF first = "true" \/ (reloadOk /\ second = "true")
          THEN /\ pc' = "extract"
               /\ UNCHANGED <<jobs, hist, passes, lastPass, notReady, raisedAt, accAtRaise>>
          ELSE /\ notReady' = notReady + 1
               /\ MergePass(<<>>)
               /\ UNCHANGED <<raisedAt, accAtRaise>>
    /\ UNCHANGED nonRunVars
    /\ UNCHANGED settled
    /\ UNCHANGED <<screenshot, handlerClose>>
    /\ UNCHANGED <<variant, max_pages, current_page, attempt, advanceCalls,
                   nextFound, pageBound, pageOpen, contextOpen, ret, retval>>

\* Capgemini: await page.goto(base_url, wait_until='networkidle');
\* await page.wait_for_selector(...); for click_count in range(max_pages)
CapLoad ==
    /\ variant = "capgemini" /\ pc = "goto"
    /\ \/ /\ pc' = IF current_page <= max_pages THEN "extract" ELSE "close"
          /\ UNCHANGED <<raisedAt, accAtRaise>>
       \/ Raise("goto")
    /\ UNCHANGED nonRunVars
    /\ UNCHANGED <<notReady, readyChecks, settled, lastPass>>
    /\ UNCHANGED <<screenshot, handlerClose>>
    /\ UNCHANGED <<variant, max_pages, current_page, attempt, jobs, hist, passes,
                   advanceCalls, nextFound, pageBound, pageOpen, contextOpen,
                   ret, retval>>

\* Capgemini: all_jobs.extend(jobs), then
\* `if click_count < max_pages - 1` (current_page is click_count + 1)
ExtendPass(page_jobs) ==
    /\ jobs' = jobs \o page_jobs
    /\ hist' = hist \o page_jobs
    /\ lastPass' = page_jobs
    /\ passes' = passes + 1
    /\ pc' = IF current_page - 1 < max_pages - 1 THEN "load_more" ELSE "close"

\* Capgemini: jobs = await self.extract_jobs_from_page(page), which returns
\* [] on every failure
CapExtractPass ==
    /\ variant = "capgemini" /\ pc = "extract"
    /\ \E page_jobs \in PageLists(variant) : ExtendPass(page_jobs)
    /\ UNCHANGED nonRunVars
    /\ UNCHANGED <<notReady, readyChecks, settled>>
    /\ UNCHANGED <<screenshot, handlerClose>>
    /\ UNCHANGED <<variant, max_pages, current_page, attempt, advanceCalls,
                   nextFound, pageBound, pageOpen, contextOpen, raisedAt,
                   accAtRaise, ret, retval>>

\* Capgemini: load_more = await page.query_selector(...); break when None;
\* else await load_more.click()
CapLoadMore ==
    /\ variant = "capgemini" /\ pc = "load_more"
    /\ \E q \in {"none", "found", "raise"}, clickOk \in BOOLEAN :
          CASE q = "raise" ->
                 /\ Raise("query_selector")
                 /\ UNCHANGED <<advanceCalls, nextFound, settled>>
            [] q = "none" ->
                 /\ nextFound' = "false"
                 /\ pc' = "close"
                 /\ UNCHANGED <<advanceCalls, settled, raisedAt, accAtRaise>>
            [] OTHER ->
                 /\ advanceCalls' = advanceCalls + 1
                 /\ IF clickOk
                    THEN /\ nextFound' = "true"
                         /\ settled' = FALSE
                         /\ pc' = "cap_settle"
                         /\ UNCHANGED <<raisedAt, accAtRaise>>
                    ELSE /\ Raise("load_more")
                         /\ UNCHANGED <<nextFound, settled>>
    /\ UNCHANGED nonRunVars
    /\ UNCHANGED <<notReady, readyChecks, lastPass>>
    /\ UNCHANGED <<screenshot, handlerClose>>
    /\ UNCHANGED <<variant, max_pages, current_page, attempt, jobs, hist, passes,
                   pageBound, pageOpen, contextOpen, ret, retval>>

\* Capgemini, after the click: await page.wait_for_load_state('networkidle');
\* await asyncio.sleep(2); await page.wait_for_selector(...); the for loop
\* then takes the next click_count
CapSettle ==
    /\ variant = "capgemini" /\ pc = "cap_settle"
    /\ \E idleOk, selOk \in BOOLEAN :
          IF ~idleOk
          THEN /\ Raise("load_more")
               /\ UNCHANGED <<settled, current_page>>
          ELSE /\ settled' = TRUE
               /\ IF selOk
                  THEN /\ current_page' = current_page + 1
                       /\ pc' = IF current_page + 1 <= max_pages
                                THEN "extract" ELSE "close"
                       /\ UNCHANGED <<raisedAt, accAtRaise>>
                  ELSE /\ Raise("load_more")
                       /\ UNCHANGED current_page
    /\ UNCHANGED nonRunVars
    /\ UNCHANGED <<notReady, readyChecks, lastPass>>
    /\ UNCHANGED <<screenshot, handlerClose>>
    /\ UNCHANGED <<variant, max_pages, attempt, jobs, hist, passes, advanceCalls,
                   nextFound, pageBound, pageOpen, contextOpen, ret, retval>>

\* await page.close(); return jobs
CloseAndReturn ==
    /\ pc = "close"
    /\ \/ /\ pageOpen' = FALSE
          /\ ret' = "list" /\ retval' = jobs
          /\ pc' = "done"
          /\ UNCHANGED <<raisedAt, accAtRaise>>
       \/ /\ Raise("close")
          /\ UNCHANGED <<pageOpen, ret, retval>>
    /\ UNCHANGED nonRunVars
    /\ UNCHANGED <<notReady, readyChecks, settled, lastPass>>
    /\ UNCHANGED <<screenshot, handlerClose>>
    /\ UNCHANGED <<variant, max_pages, current_page, attempt, jobs, hist, passes,
                   advanceCalls, nextFound, pageBound, contextOpen>>

\* mutant: no inner try around page.screenshot
AfterScreenshotUncaught(shot) == IF shot = "failed" THEN "raised" ELSE "continue"

\* try: await page.screenshot(...) except: pass -- whatever the capture
\* did, the handler goes on to page.close()
AfterScreenshot(shot) == "continue"

\* except Exception: if 'page' in locals(): try screenshot except pass
\* (the generic engines only; the Capgemini handler takes none); then
\* await page.close() outside that inner try; return []
Handler ==
    /\ pc = "handler"
    /\ IF pageBound
       THEN \E shot \in (IF variant \in Generic THEN {"saved", "failed"} ELSE {"none"}),
               closeOk \in BOOLEAN :
               /\ screenshot' = shot
               /\ IF AfterScreenshot(shot) = "raised"
                  THEN /\ ret' = "raised"
                       /\ UNCHANGED <<pageOpen, retval, handlerClose>>
                  ELSE IF closeOk
                  THEN /\ handlerClose' = "closed"
                       /\ pageOpen' = FALSE
                       /\ ret' = "list" /\ retval' = <<>>
                  ELSE /\ handlerClose' = "raised"
                       /\ ret' = "raised"
                       /\ UNCHANGED <<pageOpen, retval>>
       ELSE /\ ret' = "list" /\ retval' = <<>>
            /\ UNCHANGED <<pageOpen, screenshot, handlerClose>>
    /\ pc' = "done"
    /\ UNCHANGED nonRunVars
    /\ UNCHANGED <<notReady, readyChecks, settled, lastPass>>
    /\ UNCHANGED <<variant, max_pages, current_page, attempt, jobs, hist, passes,
                   advanceCalls, nextFound, pageBound, contextOpen, raisedAt,
                   accAtRaise>>

Next ==
    \/ NewPage
    \/ NewContext
    \/ ContextNewPage
    \/ Goto
    \/ InitialIdle
    \/ LoadAttempt
    \/ IdleWait
    \/ ExtractPass
    \/ Advance
    \/ Settle
    \/ LinksReady
    \/ CapLoad
    \/ CapExtractPass
    \/ CapLoadMore
    \/ CapSettle
    \/ CloseAndReturn
    \/ Handler

(***************************************************************************)
(* The DOM seen by the extraction scripts.  An element is                  *)
(*   [sels: the selectors it matches, text: textContent, href: .href]      *)
(* and a container is [tag, href, desc], desc its descendants in document  *)
(* order.  A selector is <<role, i>>, the i-th candidate of the role's     *)
(* list.                                                                   *)
(***************************************************************************)
Null == 0

SelectorsOf(role) == [i \in 1..NSel |-> <<role, i>>]

titleSelectors == SelectorsOf("title")

locationSelectors == SelectorsOf("location")

linkSelectors == SelectorsOf("link")

RECURSIVE QueryFrom(_, _, _)
QueryFrom(c, selector, d) ==
    IF d > Len(c.desc) THEN Null
    ELSE IF selector \in c.desc[d].sels THEN d
    ELSE QueryFrom(c, selector, d + 1)

\* container.querySelector(selector): the first matching descendant in
\* document order, null when there is none
QuerySelector(c, selector) == QueryFrom(c, selector, 1)

RECURSIVE InlineFindNoBreak(_, _, _)
\* mutant: the loop without its `break`, the last matching candidate wins
InlineFindNoBreak(c, selectors, i) ==
    IF i > Len(selectors) THEN Null
    ELSE LET element == QuerySelector(c, selectors[i])
             later == InlineFindNoBreak(c, selectors, i + 1)
         IN IF later # Null THEN later ELSE element

RECURSIVE InlineFind(_, _, _)
\* inline script, title and location:
\*   for (const selector of selectors) {
\*       const element = container.querySelector(selector);
\*       if (element) { ...; break; } }
InlineFind(c, selectors, i) ==
    IF i > Len(selectors) THEN Null
    ELSE LET element == QuerySelector(c, selectors[i])
         IN IF element # Null THEN element
            ELSE InlineFind(c, selectors, i + 1)

RECURSIVE InlineFindLink(_, _, _)
\* inline script, link: the same loop with `if (element && element.href)`
InlineFindLink(c, selectors, i) ==
    IF i > Len(selectors) THEN Null
    ELSE LET element == QuerySelector(c, selectors[i])
         IN IF element # Null /\ c.desc[element].href # <<>> THEN element
            ELSE InlineFindLink(c, selectors, i + 1)

RECURSIVE SafeQuerySelector(_, _, _)
\* safeQuerySelector(element, selectors) of extract_job_links: the first
\* candidate whose querySelector finds an element (the selectors modelled
\* here are well formed, so the catch branch is not taken)
SafeQuerySelector(c, selectors, i) ==
    IF i > Len(selectors) THEN Null
    ELSE LET found == QuerySelector(c, selectors[i])
         IN IF found # Null THEN found
            ELSE SafeQuerySelector(c, selectors, i + 1)

RECURSIVE LinkLoop(_, _, _)
\* extract_job_links:
\*   for (const linkSelector of linkSelectors) {
\*       link = safeQuerySelector(container, [linkSelector]);
\*       if (link?.href) break; }
\* the value of `link` when the loop ends
LinkLoop(c, i, link) ==
    IF i > Len(linkSelectors) THEN link
    ELSE LET found == SafeQuerySelector(c, <<linkSelectors[i]>>, 1)
         IN IF found # Null /\ c.desc[found].href # <<>> THEN found
            ELSE LinkLoop(c, i + 1, found)

TextOf(c, element) == IF element = Null THEN <<>> ELSE c.desc[element].text

HrefOf(c, element) == IF element = Null THEN <<>> ELSE c.desc[element].href

\* mutant: the title test dropped from the emission condition
InlineValidNoTitle(title, location, url) == url # <<>> \/ location # <<>>

\* mutant: a record needs a location
InlineValidNeedsLocation(title, location, url) == title # <<>> /\ location # <<>>

\* inline script: if (title && (url || location))
InlineValid(title, location, url) ==
    title # <<>> /\ (url # <<>> \/ location # <<>>)

\* inline script: title = element.textContent.trim() of the title loop
InlineTitle(c) == Trim(TextOf(c, InlineFind(c, titleSelectors, 1)))

\* inline script: location = element.textContent.trim() of the location loop
InlineLocation(c) == Trim(TextOf(c, InlineFind(c, locationSelectors, 1)))

\* inline script: url = element.href of the link loop
InlineUrl(c) == HrefOf(c, InlineFindLink(c, linkSelectors, 1))

\* inline script, the body of containers.forEach: the records pushed for
\* one container (none or one)
InlineContainer(c) ==
    IF InlineValid(InlineTitle(c), InlineLocation(c), InlineUrl(c))
    THEN <<InlineRecord(InlineTitle(c), InlineLocation(c), InlineUrl(c))>>
    ELSE <<>>

\* extract_job_links: if (!link?.href && container.tagName === 'A')
\*                        link = container
LinksUseContainer(c) == HrefOf(c, LinkLoop(c, 1, Null)) = <<>> /\ c.tag = "A"

\* extract_job_links: link.href of the link the container ends up with
LinksLinkHref(c) ==
    IF LinksUseContainer(c) THEN c.href ELSE HrefOf(c, LinkLoop(c, 1, Null))

\* extract_job_links: link.textContent
LinksLinkText(c) ==
    IF LinksUseContainer(c) THEN Concat(c.desc) ELSE TextOf(c, LinkLoop(c, 1, Null))

\* extract_job_links:
\*   safeQuerySelector(container, titleSelectors)?.textContent || link.textContent
LinksTitle(c) ==
    LET titleText == TextOf(c, SafeQuerySelector(c, titleSelectors, 1))
    IN IF titleText # <<>> THEN titleText ELSE LinksLinkText(c)

\* extract_job_links:
\*   safeQuerySelector(container, locationSelectors)?.textContent || ''
LinksLocation(c) == TextOf(c, SafeQuerySelector(c, locationSelectors, 1))

\* extract_job_links, the body of jobElements.forEach: the records added
\* to the Set for one container (none or one)
LinksContainer(c) ==
    IF LinksLinkHref(c) # <<>> /\ Trim(LinksTitle(c)) # <<>>
    THEN <<LinkRecord(Trim(LinksTitle(c)), Trim(LinksLocation(c)), LinksLinkHref(c))>>
    ELSE <<>>

(***************************************************************************)
(* One extraction pass over the containers found on a page                 *)
(***************************************************************************)
TitleParts ==
    {<<>>} \cup { <<[sels |-> {<<"title", 1>>}, text |-> t, href |-> <<>>]>> :
                    t \in {<<" ">>, <<" ", "a", " ">>} }

LocationParts ==
    {<<>>, <<[sels |-> {<<"location", 1>>}, text |-> <<"x">>, href |-> <<>>]>>}

LinkParts ==
    {<<>>} \cup { <<[sels |-> {<<"link", 1>>}, text |-> <<"b">>, href |-> h]>> :
                    h \in {<<>>, <<"j", "7">>} }

ContainerTags ==
    {[tag |-> "DIV", href |-> <<>>], [tag |-> "A", href |-> <<"j", "8">>]}

\* the containers a page is made of: an optional title element (blank or
\* padded text), an optional location element, an optional anchor (with or
\* without href), inside a DIV or an A
PassContainers ==
    { [tag |-> g.tag, href |-> g.href, desc |-> t \o l \o k] :
        g \in ContainerTags, t \in TitleParts, l \in LocationParts, k \in LinkParts }

\* mutant: no try around the body: the error ends the forEach
AfterContainerErrorAbort(i, n) == n

\* } catch (e) { console.error('Error processing container:', e); }
\* the forEach goes on with the container after the one that threw
AfterContainerError(i, n) == i

PassInit ==
    /\ pKind \in {"inline", "links"}
    /\ pContainers \in SeqsUpTo(PassContainers, MaxContainers)
    /\ pIdx = 0
    /\ pJobs = <<>>
    /\ pAcc = <<>>
    /\ pPc = "loop"
    /\ pFault \in 0..Len(pContainers)

PassIdle ==
    /\ pKind = "inline" /\ pContainers = <<>> /\ pIdx = 0 /\ pJobs = <<>>
    /\ pAcc = <<>> /\ pPc = "off" /\ pFault = 0

\* inline script: one iteration of containers.forEach, jobs.push(...)
InlineStep ==
    /\ pKind = "inline" /\ pPc = "loop" /\ pIdx < Len(pContainers)
    /\ IF pFault = pIdx + 1
       THEN /\ pIdx' = AfterContainerError(pIdx + 1, Len(pContainers))
            /\ UNCHANGED pJobs
       ELSE /\ pJobs' = pJobs \o InlineContainer(pContainers[pIdx + 1])
            /\ pIdx' = pIdx + 1
    /\ UNCHANGED <<pKind, pContainers, pAcc, pPc, pFault>>
    /\ UNCHANGED nonPassVars

\* extract_job_links: one iteration of jobElements.forEach, jobs.add(...)
\* on a Set of JSON strings (insertion order, no repeats)
LinksStep ==
    /\ pKind = "links" /\ pPc = "loop" /\ pIdx < Len(pContainers)
    /\ IF pFault = pIdx + 1
       THEN /\ pIdx' = AfterContainerError(pIdx + 1, Len(pContainers))
            /\ UNCHANGED pJobs
       ELSE /\ LET added == LinksContainer(pContainers[pIdx + 1])
               IN pJobs' = IF added # <<>> /\ ~InSeq(added[1], pJobs)
                           THEN pJobs \o added ELSE pJobs
            /\ pIdx' = pIdx + 1
    /\ UNCHANGED <<pKind, pContainers, pAcc, pPc, pFault>>
    /\ UNCHANGED nonPassVars

\* return jobs / return Array.from(jobs).map(JSON.parse)
PassReturn ==
    /\ pPc = "loop" /\ pIdx = Len(pContainers)
    /\ pPc' = "returned"
    /\ UNCHANGED <<pKind, pContainers, pIdx, pJobs, pAcc, pFault>>
    /\ UNCHANGED nonPassVars

\* the caller's merge of the pass result into its (empty) accumulator
PassMerge ==
    /\ pPc = "returned"
    /\ pAcc' = Merge(<<>>, pJobs)
    /\ pPc' = "merged"
    /\ UNCHANGED <<pKind, pContainers, pIdx, pJobs, pFault>>
    /\ UNCHANGED nonPassVars

PassNext == InlineStep \/ LinksStep \/ PassReturn \/ PassMerge

(***************************************************************************)
(* One role cascade inside one container                                   *)
(***************************************************************************)
CascadeRoles == {"title", "location", "link"}

CascadeHrefs == {<<>>, <<"j", "7">>}

CascadeElements(role) ==
    [sels : SUBSET { <<role, i>> : i \in 1..NSel }, text : {<<"a">>},
     href : CascadeHrefs]

CascadeContainers(role) ==
    { [tag |-> "DIV", href |-> <<>>, desc |-> d] :
        d \in SeqsUpTo(CascadeElements(role), MaxDesc) }

CascadeInit ==
    /\ cRole \in CascadeRoles
    /\ cCont \in CascadeContainers(cRole)
    /\ cInline = Null /\ cSafe = Null /\ cStep = 0

CascadeIdle ==
    /\ cRole = "title" /\ cCont = [tag |-> "DIV", href |-> <<>>, desc |-> <<>>]
    /\ cInline = Null /\ cSafe = Null /\ cStep = 0

\* the inline script's loop for the role
ResolveInline ==
    /\ cStep = 0
    /\ cInline' = IF cRole = "link"
                  THEN InlineFindLink(cCont, linkSelectors, 1)
                  ELSE InlineFind(cCont, SelectorsOf(cRole), 1)
    /\ cStep' = 1
    /\ UNCHANGED <<cRole, cCont, cSafe>>
    /\ UNCHANGED nonCascadeVars

\* extract_job_links' lookup for the role
ResolveSafe ==
    /\ cStep = 1
    /\ cSafe' = IF cRole = "link"
                THEN LinkLoop(cCont, 1, Null)
                ELSE SafeQuerySelector(cCont, SelectorsOf(cRole), 1)
    /\ cStep' = 2
    /\ UNCHANGED <<cRole, cCont, cInline>>
    /\ UNCHANGED nonCascadeVars

CascadeNext == ResolveInline \/ ResolveSafe

(***************************************************************************)
(* The container search of one extraction pass.  A page is the sequence of *)
(* its elements in document order, each element the set of container       *)
(* patterns (positions in self.selectors['containers']) it matches.        *)
(* document.querySelectorAll throws a SyntaxError on a malformed pattern.  *)
(***************************************************************************)
containerSelectors == [i \in 1..NContSel |-> i]

RECURSIVE QuerySelectorAllFrom(_, _, _)
QuerySelectorAllFrom(page, selector, d) ==
    IF d > Len(page) THEN <<>>
    ELSE (IF selector \in page[d] THEN <<d>> ELSE <<>>)
         \o QuerySelectorAllFrom(page, selector, d + 1)

\* document.querySelectorAll(selector): the matching elements (their
\* positions) in document order
QuerySelectorAll(page, selector) == QuerySelectorAllFrom(page, selector, 1)

RECURSIVE InlineContainers(_, _, _, _)
\* inline script of extract:
\*   let containers = [];
\*   for (const selector of containerSelectors) {
\*       const elements = document.querySelectorAll(selector);
\*       if (elements.length > 0) { containers = elements; break; } }
\* there is no try around querySelectorAll: a malformed pattern reached by
\* the loop throws out of the script
InlineContainers(page, selectors, bad, i) ==
    IF i > Len(selectors) THEN [threw |-> FALSE, els |-> <<>>]
    ELSE IF selectors[i] \in bad THEN [threw |-> TRUE, els |-> <<>>]
    ELSE LET elements == QuerySelectorAll(page, selectors[i])
         IN IF Len(elements) > 0 THEN [threw |-> FALSE, els |-> elements]
            ELSE InlineContainers(page, selectors, bad, i + 1)

RECURSIVE FindJobElements(_, _, _, _, _)
\* findJobElements of extract_job_links:
\*   for (const selector of containers) {
\*       try { elements = [...elements, ...document.querySelectorAll(selector)]; }
\*       catch { continue; } }
FindJobElements(page, selectors, bad, i, elements) ==
    IF i > Len(selectors) THEN elements
    ELSE IF selectors[i] \in bad
    THEN FindJobElements(page, selectors, bad, i + 1, elements)
    ELSE FindJobElements(page, selectors, bad, i + 1,
                         elements \o QuerySelectorAll(page, selectors[i]))

FindPages == SeqsUpTo(SUBSET (1..NContSel), MaxPageEls)

FindInit ==
    /\ fPage \in FindPages
    /\ fBad \in SUBSET (1..NContSel)
    /\ fInline = [threw |-> FALSE, els |-> <<>>]
    /\ fLinks = <<>>
    /\ fStep = 0

FindIdle ==
    /\ fPage = <<>> /\ fBad = {} /\ fInline = [threw |-> FALSE, els |-> <<>>]
    /\ fLinks = <<>> /\ fStep = 0

\* the inline script's container loop
FindInline ==
    /\ fStep = 0
    /\ fInline' = InlineContainers(fPage, containerSelectors, fBad, 1)
    /\ fStep' = 1
    /\ UNCHANGED <<fPage, fBad, fLinks>>
    /\ UNCHANGED nonFindVars

\* const jobElements = findJobElements()
FindLinks ==
    /\ fStep = 1
    /\ fLinks' = FindJobElements(fPage, containerSelectors, fBad, 1, <<>>)
    /\ fStep' = 2
    /\ UNCHANGED <<fPage, fBad, fInline>>
    /\ UNCHANGED nonFindVars

FindNext == FindInline \/ FindLinks

(***************************************************************************)
(* The readiness detector JobScraper.wait_for_page_load and its caller     *)
(* extract_job_links.  A detector call meets                               *)
(*   idle     "ok" | "raise"   wait_for_load_state("networkidle", 30 s)    *)
(*   sel[i]   "found" | "raise" wait_for_selector(pattern i, 5 s)          *)
(*   content  "term" | "plain" | "raise"  page.content(), with or without  *)
(*            one of the words job / career / position                     *)
(***************************************************************************)
IdleOutcomes == {"ok", "raise"}

SelOutcomes == {"found", "raise"}

ContentOutcomes == {"term", "plain", "raise"}

\* mutant: the outer `except Exception` re-raises
DetectorRethrow(outcome) == outcome

\* mutant: the detector reloads the page itself when the idle wait timed out
DetectorReloadsOnTimeout(idle, sel, content) == IF idle = "raise" THEN 1 ELSE 0

\* wait_for_page_load: the navigations it performs.  Its body calls
\* wait_for_load_state, wait_for_selector and content only: no goto, reload
\* or click on any path
DetectorNavigations(idle, sel, content) == 0

\* wait_for_page_load: except Exception as e: ...; return False
DetectorCatch(outcome) == IF outcome = "raised" THEN "false" ELSE outcome

\* wait_for_page_load, the body of its try: the idle wait, the pattern loop
\* (each wait_for_selector under its own bare except), the content fallback
DetectorBody(idle, sel, content) ==
    IF idle = "raise" THEN "raised"
    ELSE IF \E i \in 1..NReadyPat : sel[i] = "found" THEN "true"
    ELSE IF content = "raise" THEN "raised"
    ELSE IF content = "term" THEN "true"
    ELSE "false"

WaitForPageLoad(idle, sel, content) == DetectorCatch(DetectorBody(idle, sel, content))

ReadyInit ==
    /\ rPc = "first" /\ rCalls = 0
    /\ rIdle = "ok" /\ rSel = [i \in 1..NReadyPat |-> "raise"] /\ rContent = "plain"
    /\ rReady = "none" /\ rOut = "none"
    /\ rLog = <<>> /\ rDoc = 0

ReadyIdle ==
    /\ rPc = "off" /\ rCalls = 0
    /\ rIdle = "ok" /\ rSel = [i \in 1..NReadyPat |-> "raise"] /\ rContent = "plain"
    /\ rReady = "none" /\ rOut = "none"
    /\ rLog = <<>> /\ rDoc = 0

\* one `await self.scraper.wait_for_page_load(page)` of extract_job_links
\* and the branch taken on its result; an exception leaving the call is
\* caught by extract_job_links' own except, which returns []
DetectorCall(here, whenFalse) ==
    /\ rPc = here
    /\ \E idle \in IdleOutcomes, sel \in [1..NReadyPat -> SelOutcomes],
          content \in ContentOutcomes :
          /\ rIdle' = idle /\ rSel' = sel /\ rContent' = content
          /\ rReady' = WaitForPageLoad(idle, sel, content)
          /\ rDoc' = rDoc + DetectorNavigations(idle, sel, content)
    /\ rLog' = Append(rLog, rReady')
    /\ rCalls' = rCalls + 1
    /\ rPc' = CASE rReady' = "true" -> "evaluate"
                [] rReady' = "false" -> whenFalse
                [] OTHER -> "done"
    /\ rOut' = IF rPc' = "done" THEN "empty" ELSE rOut
    /\ UNCHANGED nonReadyVars

\* if not await self.scraper.wait_for_page_load(page):
ReadyFirst == DetectorCall("first", "reload")

\* await page.reload(); await asyncio.sleep(5)
ReadyReload ==
    /\ rPc = "reload"
    /\ \/ rPc' = "second" /\ rDoc' = rDoc + 1 /\ UNCHANGED rOut
       \/ rPc' = "done" /\ rOut' = "empty" /\ UNCHANGED rDoc
    /\ rLog' = Append(rLog, "reload")
    /\ UNCHANGED <<rCalls, rIdle, rSel, rContent, rReady>>
    /\ UNCHANGED nonReadyVars

\* mutant: a second false result leads to another reload
ReadySecondRetries == DetectorCall("second", "reload")

\* if not await self.scraper.wait_for_page_load(page): return []
ReadySecond == DetectorCall("second", "done")

\* jobs = await page.evaluate(...); return jobs
ReadyEvaluate ==
    /\ rPc = "evaluate"
    /\ rPc' = "done"
    /\ rOut' \in {"jobs", "empty"}
    /\ rLog' = Append(rLog, "evaluate")
    /\ UNCHANGED <<rCalls, rIdle, rSel, rContent, rReady, rDoc>>
    /\ UNCHANGED nonReadyVars

ReadyNext == ReadyFirst \/ ReadyReload \/ ReadySecond \/ ReadyEvaluate

(***************************************************************************)
(* The multi-site driver: main() of main.py.  A company's configuration    *)
(* is told by what its "extractor" entry leads to:                         *)
(*   "generic"    a class whose extract(base_url, max_pages) opens the URL *)
(*                it is given and returns its list or raises               *)
(*   "amazon"     AmazonExtractor, whose extract appends to an             *)
(*                ExcelGenerator of its own before returning               *)
(*   "ibm"        IBMExtractor, whose extract opens its own corrected_url  *)
(*   "microsoft"  MicrosoftExtractor, whose extract takes base_url only    *)
(*   "absent"     no "extractor" entry: KeyError                           *)
(*   "no_module"  the module cannot be imported: ImportError               *)
(*   "no_class"   the module has no such class: AttributeError             *)
(*   "malformed"  the entry is not of the form module.Class: the unpacking *)
(*                of split('.') raises ValueError                          *)
(***************************************************************************)
ExtractorKinds ==
    {"generic", "amazon", "ibm", "microsoft", "absent", "no_module", "no_class", "malformed"}

\* mutant: the browser is closed as soon as one company is finished
NextCompanyCloses(i, n) == [idx |-> i + 1, pc |-> "closing"]

\* for company, config in company_mappings.items(): the position and the
\* place the loop is at once company i is finished
NextCompany(i, n) ==
    [idx |-> i + 1, pc |-> IF i + 1 <= n THEN "build" ELSE "closing"]

\* mutant: the handler leaves the loop
OnCompanyErrorBreak(i, n) == [idx |-> i, pc |-> "closing"]

\* except Exception as e: print(...); continue
OnCompanyError(i, n) == NextCompany(i, n)

\* mutant: no fallback, the resolution error reaches the company's handler
ResolveExtractorNoFallback(kind) ==
    IF kind \in {"absent", "no_module", "no_class", "malformed"} THEN "raise" ELSE "specific"

\* try: module_path, class_name = config['extractor'].split('.'); __import__;
\*      getattr; extractor_class(scraper)
\* except (KeyError, ImportError, AttributeError): extractor = BaseExtractor(scraper)
ResolveExtractor(kind) ==
    CASE kind \in {"absent", "no_module", "no_class"} -> "base"
      [] kind = "malformed" -> "raise"
      [] OTHER -> "specific"

\* does the extractor take extract(full_url, max_pages=max_pages)
AcceptsCall(kind, engine) == engine = "base" \/ kind # "microsoft"

\* the target of the first goto of the extractor's run
FirstGoto(kind, engine) == IF engine = "specific" /\ kind = "ibm" THEN "other" ELSE "given"

DriverInit ==
    /\ dCompanies \in SeqsUpTo(ExtractorKinds, MaxCompanies)
    /\ dIdx = 1
    /\ dPc = IF Len(dCompanies) >= 1 THEN "build" ELSE "closing"
    /\ dStarted = <<>>
    /\ dFailed = {}
    /\ dHandovers = [i \in 1..Len(dCompanies) |-> <<>>]
    /\ dEngine = [i \in 1..Len(dCompanies) |-> "none"]
    /\ dUrl = [i \in 1..Len(dCompanies) |-> "none"]
    /\ dRejected = {}
    /\ dCloses = 0
    /\ dNoUrl = {}

DriverIdle ==
    /\ dCompanies = <<>> /\ dIdx = 1 /\ dPc = "off" /\ dStarted = <<>>
    /\ dFailed = {} /\ dHandovers = <<>>
    /\ dEngine = <<>> /\ dUrl = <<>> /\ dRejected = {} /\ dCloses = 0 /\ dNoUrl = {}

\* the loop body up to the extractor: the URL is built (config['base_url']
\* may be missing: KeyError to the company's handler), then the extractor
\* class is resolved and constructed
DriverBuild ==
    /\ dPc = "build"
    /\ dStarted' = Append(dStarted, dIdx)
    /\ \E urlOk \in BOOLEAN :
          /\ dNoUrl' = IF urlOk THEN dNoUrl ELSE dNoUrl \cup {dIdx}
          /\ IF urlOk /\ ResolveExtractor(dCompanies[dIdx]) # "raise"
             THEN /\ dEngine' = [dEngine EXCEPT ![dIdx] = ResolveExtractor(dCompanies[dIdx])]
                  /\ dPc' = "extract"
                  /\ UNCHANGED <<dIdx, dFailed>>
             ELSE /\ dFailed' = dFailed \cup {dIdx}
                  /\ dIdx' = OnCompanyError(dIdx, Len(dCompanies)).idx
                  /\ dPc' = OnCompanyError(dIdx, Len(dCompanies)).pc
                  /\ UNCHANGED dEngine
    /\ UNCHANGED <<dCompanies, dHandovers, dUrl, dRejected, dCloses>>
    /\ UNCHANGED nonDriverVars

\* jobs = await extractor.extract(full_url, max_pages=max_pages).  A call
\* the extractor's signature does not take raises TypeError before the body
\* runs.  The generic extract returns a list or raises (page.close() in its
\* handler); AmazonExtractor.extract never raises: it either reaches its own
\* excel_gen.append_jobs(all_jobs, "Amazon") and returns all_jobs, or
\* returns [] from its handler.  A run that got as far as its first goto
\* has opened FirstGoto
DriverExtract ==
    /\ dPc = "extract"
    /\ LET kind == dCompanies[dIdx]
           engine == dEngine[dIdx]
       IN IF ~AcceptsCall(kind, engine)
          THEN /\ dRejected' = dRejected \cup {dIdx}
               /\ dFailed' = dFailed \cup {dIdx}
               /\ dIdx' = OnCompanyError(dIdx, Len(dCompanies)).idx
               /\ dPc' = OnCompanyError(dIdx, Len(dCompanies)).pc
               /\ UNCHANGED <<dHandovers, dUrl>>
          ELSE /\ UNCHANGED dRejected
               /\ \E reached \in BOOLEAN :
                     dUrl' = [dUrl EXCEPT ![dIdx] =
                                 IF reached THEN FirstGoto(kind, engine) ELSE "none"]
               /\ IF engine = "specific" /\ kind = "amazon"
                  THEN /\ \/ dHandovers' = [dHandovers EXCEPT ![dIdx] = Append(@, "extractor")]
                          \/ UNCHANGED dHandovers
                       /\ dPc' = "export"
                       /\ UNCHANGED <<dIdx, dFailed>>
                  ELSE \/ /\ dPc' = "export"
                          /\ UNCHANGED <<dIdx, dFailed, dHandovers>>
                       \/ /\ dFailed' = dFailed \cup {dIdx}
                          /\ dIdx' = OnCompanyError(dIdx, Len(dCompanies)).idx
                          /\ dPc' = OnCompanyError(dIdx, Len(dCompanies)).pc
                          /\ UNCHANGED dHandovers
    /\ UNCHANGED <<dCompanies, dStarted, dEngine, dCloses, dNoUrl>>
    /\ UNCHANGED nonDriverVars

\* excel_gen.append_jobs(jobs, company): append_jobs catches every
\* Exception itself; the loop then takes the next company
DriverExport ==
    /\ dPc = "export"
    /\ dHandovers' = [dHandovers EXCEPT ![dIdx] = Append(@, "driver")]
    /\ dIdx' = NextCompany(dIdx, Len(dCompanies)).idx
    /\ dPc' = NextCompany(dIdx, Len(dCompanies)).pc
    /\ UNCHANGED <<dCompanies, dStarted, dFailed, dEngine, dUrl, dRejected, dCloses, dNoUrl>>
    /\ UNCHANGED nonDriverVars

\* finally: await scraper.close()
DriverClose ==
    /\ dPc = "closing"
    /\ dPc' = "closed"
    /\ dCloses' = dCloses + 1
    /\ UNCHANGED <<dCompanies, dIdx, dStarted, dFailed, dHandovers, dEngine, dUrl,
                   dRejected, dNoUrl>>
    /\ UNCHANGED nonDriverVars

DriverNext == DriverBuild \/ DriverExtract \/ DriverExport \/ DriverClose

(***************************************************************************)
(* try_next_page, candidate by candidate                                   *)
(***************************************************************************)
\* mutant: no except around the body of the loop
CandidateStepUncaught(outcome) ==
    CASE outcome = "ok" -> "true"
      [] outcome \in {"raise", "act_raise"} -> "raised"
      [] OTHER -> "continue"

\* the body of `for selector in next_page_selectors`: return True when the
\* control was found visible and activated; the bare except and the failed
\* `if` both lead to the next candidate
CandidateStep(outcome) == IF outcome = "ok" THEN "true" ELSE "continue"

NextInit ==
    /\ nCtls \in NextControls
    /\ nIdx = 1 /\ nActRaised = FALSE /\ nResult = "none"

NextIdle ==
    /\ nCtls = [i \in 1..NNextSel |-> "absent"]
    /\ nIdx = 1 /\ nActRaised = FALSE /\ nResult = "off"

\* one iteration of the loop over next_page_selectors
TryCandidate ==
    /\ nResult = "none" /\ nIdx <= NNextSel
    /\ nActRaised' = (nActRaised \/ nCtls[nIdx] = "act_raise")
    /\ IF CandidateStep(nCtls[nIdx]) = "continue"
       THEN nIdx' = nIdx + 1 /\ UNCHANGED nResult
       ELSE nResult' = CandidateStep(nCtls[nIdx]) /\ UNCHANGED nIdx
    /\ UNCHANGED nCtls
    /\ UNCHANGED nonNextVars

\* return False after the loop
NoCandidateLeft ==
    /\ nResult = "none" /\ nIdx > NNextSel
    /\ nResult' = "false"
    /\ UNCHANGED <<nCtls, nIdx, nActRaised>>
    /\ UNCHANGED nonNextVars

NextPageNext == TryCandidate \/ NoCandidateLeft


(***************************************************************************)
(* try_next_page in detail: what the page holds for each group of          *)
(* next_page_selectors and what the call does to the page.  The list is    *)
(* walked in its written order; its groups, by the kind of control their   *)
(* patterns describe, are                                                  *)
(*   1 "next"       standard, button, pagination and arrow patterns        *)
(*   2 "form"       #frmPagination, form[id*="pagination"], ...            *)
(*   3 "next"       text and data-attribute patterns                       *)
(*   4 "load_more"  .load-more, .loadMore, .show-more, .showMore           *)
(*   5 "next"       icon, vendor, URL and ARIA patterns                    *)
(* A group's control is what query_selector returns for the first of its   *)
(* patterns that finds something:                                          *)
(*   query    "none" | "raise" | "found"                                   *)
(*   visible  is_visible()                                                 *)
(*   href     get_attribute('href') is non-empty                           *)
(*   act      "ok" | "raise"   outcome of goto / click                     *)
(*   idle     "ok" | "raise"   outcome of the idle wait after it           *)
(***************************************************************************)
SelectorKinds == <<"next", "form", "next", "load_more", "next">>

NoControl == [query |-> "none", visible |-> FALSE, href |-> FALSE, act |-> "ok", idle |-> "ok"]

QueryRaises == [NoControl EXCEPT !.query = "raise"]

PageControls ==
    {NoControl, QueryRaises}
    \cup { [query |-> "found", visible |-> FALSE, href |-> h, act |-> "ok", idle |-> "ok"] :
             h \in BOOLEAN }
    \cup { [query |-> "found", visible |-> TRUE, href |-> h, act |-> o[1], idle |-> o[2]] :
             h \in BOOLEAN, o \in {<<"ok", "ok">>, <<"raise", "ok">>, <<"ok", "raise">>} }

\* mutant: the visibility test left out
ShouldActivateAnyFound(cand) == cand.query = "found"

\* if next_button and await next_button.is_visible():
ShouldActivate(cand) == cand.query = "found" /\ cand.visible

\* the operations one iteration performs on the page: goto when the control
\* has an href, click otherwise, then the idle wait if the activation returned
ActivationOps(cand, i) ==
    IF ~ShouldActivate(cand) THEN <<>>
    ELSE <<[op |-> IF cand.href THEN "goto" ELSE "click", at |-> i]>>
         \o (IF cand.act = "ok" THEN <<[op |-> "idle", at |-> i]>> ELSE <<>>)

\* how one iteration ends, in the vocabulary of CtlOutcomes
OutcomeOf(cand) ==
    CASE cand.query = "raise" -> "raise"
      [] ~ShouldActivate(cand) -> "absent"
      [] cand.act = "raise" \/ cand.idle = "raise" -> "act_raise"
      [] OTHER -> "ok"

ControlInit ==
    /\ kPage \in [1..Len(SelectorKinds) -> PageControls]
    /\ kIdx = 1 /\ kOps = <<>> /\ kResult = "none"

ControlIdle ==
    /\ kPage = [i \in 1..Len(SelectorKinds) |-> NoControl]
    /\ kIdx = 1 /\ kOps = <<>> /\ kResult = "off"

\* one iteration of `for selector in next_page_selectors`
ControlTry ==
    /\ kResult = "none" /\ kIdx <= Len(SelectorKinds)
    /\ kOps' = kOps \o ActivationOps(kPage[kIdx], kIdx)
    /\ IF CandidateStep(OutcomeOf(kPage[kIdx])) = "continue"
       THEN kIdx' = kIdx + 1 /\ UNCHANGED kResult
       ELSE kResult' = CandidateStep(OutcomeOf(kPage[kIdx])) /\ UNCHANGED kIdx
    /\ UNCHANGED kPage
    /\ UNCHANGED nonControlVars

\* return False after the loop
ControlNone ==
    /\ kResult = "none" /\ kIdx > Len(SelectorKinds)
    /\ kResult' = "false"
    /\ UNCHANGED <<kPage, kIdx, kOps>>
    /\ UNCHANGED nonControlVars

ControlNext == ControlTry \/ ControlNone


(***************************************************************************)
(* Numbered pagination: MahindraExtractor.try_next_page.  A link of the    *)
(* page is the offset its href encodes and whether it has rel="nofollow";  *)
(* the href is the text "startrow=" followed by the offset in decimal.     *)
(***************************************************************************)
PageSize == 10

DigitChar(d) ==
    CASE d = 0 -> "0" [] d = 1 -> "1" [] d = 2 -> "2" [] d = 3 -> "3" [] d = 4 -> "4"
      [] d = 5 -> "5" [] d = 6 -> "6" [] d = 7 -> "7" [] d = 8 -> "8" [] OTHER -> "9"

\* the decimal text an f-string makes of a non-negative integer
RECURSIVE Decimal(_)
Decimal(n) == IF n < 10 THEN <<DigitChar(n)>> ELSE Append(Decimal(n \div 10), DigitChar(n % 10))

StartrowText == <<"s", "t", "a", "r", "t", "r", "o", "w", "=">>

\* the href of a results link for the given offset
StartrowHref(offset) == StartrowText \o Decimal(offset)

\* the attribute selector [href*="..."]: the text occurs somewhere in the value
Contains(text, part) ==
    \E i \in 1..(Len(text) - Len(part) + 1) : SubSeq(text, i, i + Len(part) - 1) = part

\* the offsets the links of a page can carry
LinkOffsets == {0, 10, 20, 100, 200}

ActivePages == {0, 1, 2}

PageLinks == [offset : LinkOffsets, nofollow : BOOLEAN]

\* activePage ? parseInt(title.replace('Page ', '')) : 1
CurrentPage(active) == IF active = 0 THEN 1 ELSE active


\* a[href*="startrow={next_startrow}"][rel="nofollow"]
MatchesSelector(link, startrow) ==
    link.nofollow /\ Contains(StartrowHref(link.offset), StartrowText \o Decimal(startrow))

\* page.query_selector: the first matching element in document order, 0 for None
QuerySelectorLink(links, startrow) ==
    IF \E i \in 1..Len(links) : MatchesSelector(links[i], startrow)
    THEN CHOOSE i \in 1..Len(links) :
            /\ MatchesSelector(links[i], startrow)
            /\ \A j \in 1..(i - 1) : ~MatchesSelector(links[j], startrow)
    ELSE 0

NumberedInit ==
    /\ qActive \in ActivePages
    /\ qLinks \in SeqsUpTo(PageLinks, MaxLinks)
    /\ qPc = "read" /\ qStartrow = 0 /\ qFound = 0 /\ qClicked = 0 /\ qResult = "none"

NumberedIdle ==
    /\ qActive = 0 /\ qLinks = <<>>
    /\ qPc = "off" /\ qStartrow = 0 /\ qFound = 0 /\ qClicked = 0 /\ qResult = "none"

\* current_page = await page.evaluate(...); next_startrow = current_page * 10;
\* an exception of the evaluate goes to the except: return False
NumberedRead ==
    /\ qPc = "read"
    /\ \/ /\ qStartrow' = CurrentPage(qActive) * PageSize
          /\ qPc' = "locate"
          /\ UNCHANGED qResult
       \/ /\ qPc' = "done" /\ qResult' = "false"
          /\ UNCHANGED qStartrow
    /\ UNCHANGED <<qActive, qLinks, qFound, qClicked>>
    /\ UNCHANGED nonNumberedVars

\* next_page = await page.query_selector(...); if next_page: ...; return False
NumberedLocate ==
    /\ qPc = "locate"
    /\ qFound' = QuerySelectorLink(qLinks, qStartrow)
    /\ IF qFound' = 0
       THEN qPc' = "done" /\ qResult' = "false"
       ELSE qPc' = "click" /\ UNCHANGED qResult
    /\ UNCHANGED <<qActive, qLinks, qStartrow, qClicked>>
    /\ UNCHANGED nonNumberedVars

\* await next_page.click(); await page.wait_for_load_state('networkidle');
\* await asyncio.sleep(3); return True -- the click or the idle wait may
\* raise: except Exception: return False
NumberedClick ==
    /\ qPc = "click"
    /\ qClicked' = qFound
    /\ qPc' = "done"
    /\ qResult' \in {"true", "false"}
    /\ UNCHANGED <<qActive, qLinks, qStartrow, qFound>>
    /\ UNCHANGED nonNumberedVars

NumberedNext == NumberedRead \/ NumberedLocate \/ NumberedClick


(***************************************************************************)
(* The export sink: ExcelGenerator.  The CSV file is its sequence of       *)
(* lines; a job is a dict with a title and, for some extractors, a source. *)
(* The timestamp column (the clock) is left out of a row.                  *)
(***************************************************************************)
SinkHeader == [company |-> "company", title |-> "title", source |-> "source"]

SinkJobs == {[title |-> "a", source |-> "none"], [title |-> "b", source |-> "s"]}

SinkCompanies == {"X", "Y"}

\* job_data = {'company': company, 'title': job.get('title', ''), ...,
\*             'source': job.get('source', company)}
SinkRow(job, company) ==
    [company |-> company, title |-> job.title,
     source |-> IF job.source = "none" THEN company ELSE job.source]

\* for job in jobs: writer.writerow(job_data)
RECURSIVE SinkRows(_, _)
SinkRows(job_list, company) ==
    IF job_list = <<>> THEN <<>>
    ELSE <<SinkRow(Head(job_list), company)>> \o SinkRows(Tail(job_list), company)

\* mutant: the file opened with mode 'w'
OpenForWrite(file) == <<>>

\* with open(self.csv_file, 'a', newline='', encoding='utf-8') as f:
\* what the file holds when the writes of the call start
OpenForAppend(file) == file

\* __init__: open(self.csv_file, 'w'); writer.writeheader()
SinkInit ==
    /\ sFile = <<SinkHeader>>
    /\ sXlsx = <<>>
    /\ sCalls = <<>>

SinkIdle == sFile = <<>> /\ sXlsx = <<>> /\ sCalls = <<>>

\* append_jobs(jobs, company): the rows are written to the CSV file, then
\* the file is read back and written as the Excel file; an exception of the
\* conversion is caught and leaves the Excel file as it was
AppendJobs ==
    /\ Len(sCalls) < MaxSinkCalls
    /\ \E job_list \in SeqsUpTo(SinkJobs, MaxSinkJobs), company \in SinkCompanies,
          converted \in BOOLEAN :
          /\ sFile' = OpenForAppend(sFile) \o SinkRows(job_list, company)
          /\ sXlsx' = IF converted THEN Tail(sFile') ELSE sXlsx
          /\ sCalls' = Append(sCalls, <<job_list, company>>)
    /\ UNCHANGED nonSinkVars

SinkNext == AppendJobs

MergeIdle == mL = <<>> /\ mOnce = <<>> /\ mTwice = <<>> /\ mStep = 0

Init == RunInit /\ MergeIdle /\ PassIdle /\ CascadeIdle /\ FindIdle /\ ReadyIdle /\ DriverIdle /\ NextIdle /\ ControlIdle /\ NumberedIdle /\ SinkIdle

Spec == Init /\ [][Next]_vars

(***************************************************************************)
(* The merge law: merge([], L), then merge(result, L)                      *)
(***************************************************************************)
MergeTitles == {<<"a">>, <<"A">>}
MergeLocations == {<<>>, <<"x">>}
MergeUrls == {<<"j", "7">>}

MergeRecords ==
    { InlineRecord(t, l, u) : t \in MergeTitles, l \in MergeLocations, u \in MergeUrls }

\* no run is in progress
RunIdle ==
    /\ variant = "base" /\ pc = "off" /\ max_pages = 1 /\ current_page = 1
    /\ attempt = 0 /\ jobs = <<>> /\ hist = <<>> /\ passes = 0
    /\ advanceCalls = 0 /\ nextFound = "none" /\ pageBound = FALSE
    /\ pageOpen = FALSE /\ contextOpen = FALSE /\ raisedAt = "none"
    /\ accAtRaise = <<>> /\ ret = "none" /\ retval = <<>>
    /\ screenshot = "none" /\ handlerClose = "none"
    /\ readyChecks = 0 /\ settled = TRUE /\ lastPass = <<>> /\ notReady = 0

MergeInit ==
    /\ mL \in SeqsUpTo(MergeRecords, MaxMergeLen)
    /\ mOnce = <<>> /\ mTwice = <<>> /\ mStep = 0

\* the merge loop run over L with an empty accumulator
MergeFirst ==
    /\ mStep = 0
    /\ mOnce' = Merge(<<>>, mL)
    /\ mStep' = 1
    /\ UNCHANGED <<mL, mTwice>>
    /\ UNCHANGED nonMergeVars

\* the merge loop run over the same L with the first result as accumulator
MergeAgain ==
    /\ mStep = 1
    /\ mTwice' = Merge(mOnce, mL)
    /\ mStep' = 2
    /\ UNCHANGED <<mL, mOnce>>
    /\ UNCHANGED nonMergeVars

MergeNext == MergeFirst \/ MergeAgain

InitMerge == RunIdle /\ MergeInit /\ PassIdle /\ CascadeIdle /\ FindIdle /\ ReadyIdle /\ DriverIdle /\ NextIdle /\ ControlIdle /\ NumberedIdle /\ SinkIdle

SpecMerge == InitMerge /\ [][MergeNext]_vars

InitPass == RunIdle /\ MergeIdle /\ PassInit /\ CascadeIdle /\ FindIdle /\ ReadyIdle /\ DriverIdle /\ NextIdle /\ ControlIdle /\ NumberedIdle /\ SinkIdle

SpecPass == InitPass /\ [][PassNext]_vars

InitCascade == RunIdle /\ MergeIdle /\ PassIdle /\ CascadeInit /\ FindIdle /\ ReadyIdle /\ DriverIdle /\ NextIdle /\ ControlIdle /\ NumberedIdle /\ SinkIdle

SpecCascade == InitCascade /\ [][CascadeNext]_vars

InitFind == RunIdle /\ MergeIdle /\ PassIdle /\ CascadeIdle /\ FindInit /\ ReadyIdle /\ DriverIdle /\ NextIdle /\ ControlIdle /\ NumberedIdle /\ SinkIdle

SpecFind == InitFind /\ [][FindNext]_vars

InitReady == RunIdle /\ MergeIdle /\ PassIdle /\ CascadeIdle /\ FindIdle /\ ReadyInit /\ DriverIdle /\ NextIdle /\ ControlIdle /\ NumberedIdle /\ SinkIdle

SpecReady == InitReady /\ [][ReadyNext]_vars

InitDriver == RunIdle /\ MergeIdle /\ PassIdle /\ CascadeIdle /\ FindIdle /\ ReadyIdle /\ DriverInit /\ NextIdle /\ ControlIdle /\ NumberedIdle /\ SinkIdle

SpecDriver == InitDriver /\ [][DriverNext]_vars

InitNext == RunIdle /\ MergeIdle /\ PassIdle /\ CascadeIdle /\ FindIdle /\ ReadyIdle /\ DriverIdle /\ NextInit /\ ControlIdle /\ NumberedIdle /\ SinkIdle

SpecNext == InitNext /\ [][NextPageNext]_vars

InitControl == RunIdle /\ MergeIdle /\ PassIdle /\ CascadeIdle /\ FindIdle /\ ReadyIdle /\ DriverIdle /\ NextIdle /\ ControlInit /\ NumberedIdle /\ SinkIdle

SpecControl == InitControl /\ [][ControlNext]_vars

InitNumbered == RunIdle /\ MergeIdle /\ PassIdle /\ CascadeIdle /\ FindIdle /\ ReadyIdle /\ DriverIdle /\ NextIdle /\ ControlIdle /\ NumberedInit /\ SinkIdle

SpecNumbered == InitNumbered /\ [][NumberedNext]_vars

InitSink == RunIdle /\ MergeIdle /\ PassIdle /\ CascadeIdle /\ FindIdle /\ ReadyIdle /\ DriverIdle /\ NextIdle /\ ControlIdle /\ NumberedIdle /\ SinkInit

SpecSink == InitSink /\ [][SinkNext]_vars

\* the run with every enabled step of extract eventually taken: each await
\* returns or raises within its timeout
FairSpec == Init /\ [][Next]_vars /\ WF_vars(Next)

(***************************************************************************)
(* Claims                                                                  *)
(***************************************************************************)

\* C1: for every combination of outcomes of the page operations, the
\* generic extract returns a list and never lets an exception propagate.
\* Violated: page.close() in the except handler is outside any try.
ExtractNeverRaises == variant \in Generic => ret # "raised"

\* C2: when the idle wait or the evaluate of a later page (k >= 2) raises
\* after earlier pages were merged, extract returns the accumulated records
\* rather than an empty list.  Violated: the handler returns [].
LaterPageFailureKeepsRecords ==
    (/\ variant \in Generic
     /\ ret = "list"
     /\ raisedAt \in {"idle", "evaluate"}
     /\ current_page >= 2)
    => retval = accAtRaise

\* C3: when try_next_page returns false on page k < max_pages the loop
\* stops, no further extraction pass runs, and the list extract returns is
\* exactly the records accumulated from pages 1..k.  Violated: when the
\* page.close() that follows the loop raises, the handler returns [].
AdvanceFailureReturnsAccumulated ==
    (variant \in Generic /\ nextFound = "false")
    => /\ pc \in {"close", "handler", "done"}
       /\ passes = current_page
       /\ ret = "list" => retval = jobs

\* the part of C3 the code keeps: after a failed advance the loop has
\* stopped and no further pass runs
AdvanceFailureStopsLoop ==
    (variant \in Generic /\ nextFound = "false")
    => /\ pc \in {"close", "handler", "done"}
       /\ passes = current_page

RECURSIVE Dedup(_)
\* s with every later occurrence of an element removed, first-seen order
Dedup(s) ==
    IF s = <<>> THEN <<>>
    ELSE LET front == Dedup(SubSeq(s, 1, Len(s) - 1))
             last == s[Len(s)]
         IN IF \E i \in 1..(Len(s) - 1) : s[i] = last THEN front
            ELSE Append(front, last)

\* C4: for a run that visits pages 1..k whose passes yield L1..Lk, the
\* returned list is L1 ++ ... ++ Lk with later occurrences removed.
\* Violated: when the page.close() that follows the loop raises, the
\* handler returns [].
ReturnIsDedupConcat ==
    (/\ variant \in Generic
     /\ ret = "list"
     /\ passes >= 1
     /\ raisedAt \notin {"idle", "evaluate"})
    => retval = Dedup(hist)

\* the part of C4 the code keeps: the accumulator is always the
\* de-duplicated concatenation, and it is what a normal return hands back
AccumulatorIsDedupConcat ==
    variant \in Generic =>
        /\ jobs = Dedup(hist)
        /\ (ret = "list" /\ raisedAt = "none") => retval = Dedup(hist)

Lower(c) == CASE c = "A" -> "a" [] c = "B" -> "b" [] OTHER -> c

RECURSIVE NormTitle(_)
\* a title with case folded and whitespace removed
NormTitle(t) ==
    IF t = <<>> THEN <<>>
    ELSE IF Head(t) = " " THEN NormTitle(Tail(t))
    ELSE <<Lower(Head(t))>> \o NormTitle(Tail(t))

\* the spec's dedup key: normalized title, exact url
NormKey(r) == <<NormTitle(r.title), r.url>>

\* C5: the accumulator never holds two records with the same normalized
\* (title, url) key.  Violated: `job not in jobs` compares whole records.
AccumulatorKeysUnique ==
    variant \in Generic =>
        \A i, j \in 1..Len(jobs) : NormKey(jobs[i]) = NormKey(jobs[j]) => i = j

\* C6: merging L into an empty accumulator and merging L again into the
\* result leaves the accumulator unchanged.
MergeIdempotent == mStep = 2 => mTwice = mOnce

MergeIdempotentWitness ==
    mStep = 2 /\ Len(mOnce) >= 2 /\ Len(mOnce) < Len(mL)

\* C7: advance is never invoked while the current page index equals
\* max_pages; a run invokes it at most max_pages - 1 times, never when
\* max_pages = 1.
AdvanceOnlyBeforeLastPage ==
    /\ pc \in {"try_next", "load_more"} => current_page < max_pages
    /\ advanceCalls <= max_pages - 1
    /\ max_pages = 1 => advanceCalls = 0

AdvanceOnlyBeforeLastPageWitness ==
    /\ pc = "done" /\ ret = "list"
    /\ max_pages >= 2 /\ passes = max_pages
    /\ advanceCalls = max_pages - 1


\* a record as the spec's emission invariant wants it
WellFormedRecord(r) ==
    /\ r.title # <<>>
    /\ Trim(r.title) = r.title
    /\ (r.url # <<>> \/ r.location # <<>>)

\* C8: every record an extraction pass produces has a non-empty trimmed
\* title and a url or a location; a container failing this appears neither
\* in the pass result nor in the accumulator.
EmittedRecordsWellFormed ==
    /\ \A i \in 1..Len(pJobs) : WellFormedRecord(pJobs[i])
    /\ \A i \in 1..Len(pAcc) : WellFormedRecord(pAcc[i])

\* a blank-title container was dropped and another container was emitted
EmittedRecordsWellFormedWitness ==
    /\ pKind = "inline" /\ pPc = "merged"
    /\ Len(pContainers) = 2 /\ Len(pAcc) = 1
    /\ \E i \in 1..2 :
          /\ InlineFind(pContainers[i], titleSelectors, 1) # Null
          /\ InlineFind(pContainers[i], locationSelectors, 1) # Null
          /\ InlineContainer(pContainers[i]) = <<>>

\* a container the claim counts as valid, with the roles resolved the way
\* the pass itself resolves them: a non-blank title, and a link or a
\* non-blank location
ValidContainer(kind, c) ==
    IF kind = "inline"
    THEN /\ InlineTitle(c) # <<>>
         /\ (InlineUrl(c) # <<>> \/ InlineLocation(c) # <<>>)
    ELSE /\ Trim(LinksTitle(c)) # <<>>
         /\ (LinksLinkHref(c) # <<>> \/ Trim(LinksLocation(c)) # <<>>)

ValidCount(kind, cs) ==
    Cardinality({ i \in 1..Len(cs) : ValidContainer(kind, cs[i]) })

\* C9: a pass over m valid containers and n containers with an empty
\* title returns exactly m records, one per valid container.
\* Violated by extract_job_links: it drops a container without a link and
\* folds equal records in its Set.
PassEmitsOnePerValidContainer ==
    (pPc \in {"returned", "merged"} /\ pFault = 0)
    => Len(pJobs) = ValidCount(pKind, pContainers)

\* the part of C9 the code keeps: the inline script of extract emits one
\* record per valid container
InlinePassEmitsOnePerValidContainer ==
    (pKind = "inline" /\ pPc \in {"returned", "merged"} /\ pFault = 0)
    => Len(pJobs) = ValidCount(pKind, pContainers)

\* the candidates of a list that match some descendant of c
Matching(c, selectors) ==
    { i \in 1..Len(selectors) :
        \E d \in 1..Len(c.desc) : selectors[i] \in c.desc[d].sels }

\* the first descendant of c, in document order, that matches the selector
FirstMatch(c, selector) ==
    CHOOSE d \in 1..Len(c.desc) :
        /\ selector \in c.desc[d].sels
        /\ \A e \in 1..(d - 1) : selector \notin c.desc[e].sels

Least(S) == CHOOSE i \in S : \A j \in S : i <= j

\* what the claim says a cascade returns: the match of the earliest
\* matching candidate, none when no candidate matches
EarliestCandidateMatch(c, selectors) ==
    IF Matching(c, selectors) = {} THEN Null
    ELSE FirstMatch(c, selectors[Least(Matching(c, selectors))])

\* the candidates whose first match carries a non-empty href
MatchingWithHref(c, selectors) ==
    { i \in Matching(c, selectors) :
        c.desc[FirstMatch(c, selectors[i])].href # <<>> }

EarliestCandidateMatchWithHref(c, selectors) ==
    IF MatchingWithHref(c, selectors) = {} THEN Null
    ELSE FirstMatch(c, selectors[Least(MatchingWithHref(c, selectors))])

\* the element extract_job_links goes on to use as the link of the
\* container: `link` after the loop, when it carries an href
SafeLinkUsed == IF HrefOf(cCont, cSafe) # <<>> THEN cSafe ELSE Null

RECURSIVE Remaining(_, _)
\* the candidates of a list that are well formed, in list order
Remaining(selectors, bad) ==
    IF selectors = <<>> THEN <<>>
    ELSE (IF Head(selectors) \in bad THEN <<>> ELSE <<Head(selectors)>>)
         \o Remaining(Tail(selectors), bad)

\* C11: a malformed candidate pattern does not abort the cascade: the
\* container search yields what the remaining (well-formed) candidates
\* determine, in the inline script and in findJobElements alike.  Violated
\* by the inline script, whose querySelectorAll is not guarded: the script
\* throws at the first malformed pattern it reaches.
MalformedPatternSkipped ==
    fStep = 2 =>
        /\ fInline = InlineContainers(fPage, Remaining(containerSelectors, fBad), {}, 1)
        /\ fLinks = FindJobElements(fPage, Remaining(containerSelectors, fBad), {}, 1, <<>>)

\* the part of C11 the code keeps: findJobElements skips malformed patterns
FindJobElementsSkipsMalformed ==
    fStep = 2 =>
        fLinks = FindJobElements(fPage, Remaining(containerSelectors, fBad), {}, 1, <<>>)

RECURSIVE FirstMatchingPattern(_, _, _)
\* the matches of the first pattern in list order that matches anything
FirstMatchingPattern(page, selectors, i) ==
    IF i > Len(selectors) THEN <<>>
    ELSE IF QuerySelectorAll(page, selectors[i]) # <<>>
    THEN QuerySelectorAll(page, selectors[i])
    ELSE FirstMatchingPattern(page, selectors, i + 1)

\* C17: with well-formed patterns, the containers of a pass are exactly the
\* matches of the first container pattern that matches anything, in the
\* inline script and in findJobElements alike.  Violated by
\* findJobElements, which concatenates the matches of every pattern.
ContainersFromSinglePattern ==
    (fStep = 2 /\ fBad = {}) =>
        /\ ~fInline.threw
        /\ fInline.els = FirstMatchingPattern(fPage, containerSelectors, 1)
        /\ fLinks = FirstMatchingPattern(fPage, containerSelectors, 1)

\* the part of C17 the code keeps: the inline script of extract uses the
\* matches of the first matching pattern only
InlineContainersFromSinglePattern ==
    (fStep = 2 /\ fBad = {}) =>
        /\ ~fInline.threw
        /\ fInline.els = FirstMatchingPattern(fPage, containerSelectors, 1)

\* C12: the readiness detector reports failure as a value.  It never ends
\* by raising; it returns false when the idle wait times out (no pattern is
\* probed then) and when no pattern matches and page.content() raises or
\* holds none of the words; and when the second call of extract_job_links
\* is not ready either, extract_job_links returns [] and raises nothing.
DetectorFailureIsAValue ==
    /\ rReady # "raised"
    /\ rOut # "raised"
    /\ (rCalls >= 1 /\ rIdle = "raise") => rReady = "false"
    /\ (/\ rCalls >= 1 /\ rIdle = "ok"
        /\ \A i \in 1..NReadyPat : rSel[i] = "raise"
        /\ rContent \in {"plain", "raise"}) => rReady = "false"
    /\ (rCalls = 2 /\ rReady = "false") => (rPc = "done" /\ rOut = "empty")

\* both detector calls failed, the second because page.content() raised
DetectorFailureIsAValueWitness ==
    /\ rCalls = 2 /\ rPc = "done" /\ rOut = "empty"
    /\ rReady = "false" /\ rIdle = "ok" /\ rContent = "raise"

\* C13: when extract returns, every page and every browsing context the
\* run created has been closed.  Violated: extract of base2_extractor.py
\* never closes the context it creates.
AllResourcesClosedAtExit == ret = "list" => (~pageOpen /\ ~contextOpen)

\* the part of C13 the code keeps: a run that returns a list after creating
\* a page has closed that page
PageClosedOnReturn == (ret = "list" /\ pageBound) => ~pageOpen

\* C14: a company whose processing raises ends only its own run: the
\* companies are started one after the other in configuration order, and
\* when the driver is done every company was started, whatever failed.
FailureEndsOnlyThatCompany ==
    /\ dStarted = [i \in 1..Len(dStarted) |-> i]
    /\ dPc \in {"closing", "closed"} => Len(dStarted) = Len(dCompanies)
    /\ \A i \in dFailed : dPc \in {"build", "extract", "export"} => dIdx > i

\* the first company failed and a later one was extracted and exported
FailureEndsOnlyThatCompanyWitness ==
    /\ dPc = "closed"
    /\ 1 \in dFailed
    /\ \E i \in 2..Len(dCompanies) : i \notin dFailed /\ dHandovers[i] # <<>>

\* C15: the records of a company whose run reached the export were handed
\* to an export sink exactly once, by the driver.  Violated: AmazonExtractor
\* .extract appends its records to an ExcelGenerator itself before the
\* driver appends them again.
RecordsHandedOnceByDriver ==
    \A i \in 1..Len(dCompanies) :
        (i < dIdx /\ i \notin dFailed) => dHandovers[i] = <<"driver">>

\* the part of C15 the code keeps: the driver itself hands each run's
\* records over at most once, after the run
DriverHandsOverAtMostOnce ==
    \A i \in 1..Len(dCompanies) :
        /\ Cardinality({k \in 1..Len(dHandovers[i]) : dHandovers[i][k] = "driver"}) <= 1
        /\ (i >= dIdx /\ dPc # "closed" /\ dPc # "closing") =>
              \A k \in 1..Len(dHandovers[i]) : dHandovers[i][k] # "driver"

\* C16: the generic extract gives the run up on a failing initial
\* navigation only at its third attempt, and never makes a fourth one.
\* Violated: extract of base_extractor.py calls page.goto once, with no
\* retry, and gives up on the first failure.
InitialLoadRetriedThrice ==
    variant \in Generic =>
        /\ attempt <= MaxRetries - 1
        /\ raisedAt = "goto" => attempt = MaxRetries - 1

\* the part of C16 the code keeps: the retry loop of base2_extractor.py
InitialLoadRetriedThriceBase2 ==
    variant = "base2" =>
        /\ attempt <= MaxRetries - 1
        /\ raisedAt = "goto" => attempt = MaxRetries - 1
        /\ (pc \in {"extract", "try_next", "close"}) => raisedAt = "none"

CaptureFailureSwallowed ==
    (variant \in Generic /\ pc = "done" /\ raisedAt # "none" /\ pageBound) =>
        /\ screenshot \in {"saved", "failed"}
        /\ handlerClose \in {"closed", "raised"}
        /\ handlerClose = "closed" => (ret = "list" /\ retval = <<>> /\ ~pageOpen)
        /\ handlerClose = "raised" => (ret = "raised" /\ pageOpen)

\* the capture failed, the page was closed and [] was returned
CaptureFailureSwallowedWitness ==
    /\ variant \in Generic /\ pc = "done" /\ raisedAt = "evaluate"
    /\ screenshot = "failed" /\ handlerClose = "closed"
    /\ ret = "list" /\ ~pageOpen

\* C20: in a run of a generic engine the page index is 1 until the loop
\* is entered, stays within 1..max_pages, and changes only by the step that
\* follows a try_next_page call which returned true, by exactly 1.
PageIndexDiscipline ==
    /\ [](variant \in Generic /\ pc # "off" =>
            /\ 1 <= current_page /\ current_page <= max_pages
            /\ pc \in {"start", "new_page", "goto", "idle0"} => current_page = 1)
    /\ [][(variant \in Generic /\ current_page' # current_page) =>
            /\ pc = "try_next"
            /\ nextFound' = "true"
            /\ current_page' = current_page + 1]_vars

\* the index was advanced to the last page after a successful advance
PageIndexDisciplineWitness ==
    /\ variant \in Generic /\ nextFound = "true"
    /\ current_page = max_pages /\ current_page >= 2 /\ advanceCalls >= 1

AdapterRunDeduplicates ==
    (/\ variant = "capgemini" /\ ret = "list" /\ raisedAt = "none"
     /\ passes = 2
     /\ NoDup(lastPass)
     /\ NoDup(SubSeq(hist, 1, Len(hist) - Len(lastPass))))
        => NoDup(retval)

\* C25: after every activation of a pagination control (the adapter's load
\* more click, the generic advance) the settle delay elapses before the next
\* extraction pass reads the page: no readiness check and no pass starts
\* between the click and the end of the sleep, and every activation that
\* returned leaves the run waiting for that sleep.
SettleDelayBeforeNextPass ==
    /\ [](pc \in {"idle", "ready", "extract"} => settled)
    /\ [][passes' # passes => settled]_vars
    /\ [][(advanceCalls' # advanceCalls /\ nextFound' = "true" /\ raisedAt' = "none") =>
            (~settled' /\ pc' \in {"settle", "cap_settle"})]_vars

\* a second pass was read after a control was activated and the delay elapsed
SettleDelayBeforeNextPassWitness ==
    /\ variant = "capgemini" /\ passes = 2 /\ advanceCalls = 1
    /\ nextFound = "true" /\ settled /\ ret = "list"

\* C27: when a container matching one of the container patterns is there to
\* be found within the secondary timeout, the detector returns true whatever
\* the other layers do, an idle signal that timed out included.  Violated:
\* the idle wait's timeout is raised inside the outer try, so the pattern
\* loop never runs and the call returns false.
ContainerPresentMeansReady ==
    (rCalls >= 1 /\ \E i \in 1..NReadyPat : rSel[i] = "found") => rReady = "true"

\* C28: the readiness retry is bounded: one pass calls the detector at most
\* twice and reloads at most once, the reload coming right after a first
\* call that returned false; a second false ends the pass with an empty
\* list and no evaluate.
ReadinessRetryBounded ==
    /\ rCalls <= 2
    /\ Len(SelectSeq(rLog, LAMBDA e : e = "reload")) <= 1
    /\ \A i \in 1..Len(rLog) : rLog[i] = "reload" => (i = 2 /\ rLog[1] = "false")
    /\ \A i \in 1..Len(rLog) : rLog[i] = "evaluate" => (i >= 2 /\ rLog[i - 1] = "true")
    /\ (Len(rLog) >= 3 /\ rLog[3] = "false") =>
           (rPc = "done" /\ rOut = "empty" /\ Len(rLog) = 3)

\* both calls returned false around the one reload, and the pass is over
ReadinessRetryBoundedWitness ==
    rPc = "done" /\ rLog = <<"false", "reload", "false">> /\ rOut = "empty"

\* C29: the detector never navigates: a call of wait_for_page_load leaves
\* the page's document as it was, whatever it returns; the only navigation
\* of a pass is the caller's reload between the two calls.
DetectorNeverNavigates ==
    /\ [][rCalls' # rCalls => rDoc' = rDoc]_vars
    /\ [](rDoc = Len(SelectSeq(rLog, LAMBDA e : e = "reload")) \/
          (rDoc = 0 /\ rPc = "done" /\ rLog[Len(rLog)] = "reload"))

\* the detector was called twice, one call having met an idle timeout, and
\* the page was navigated once, by the caller's reload
DetectorNeverNavigatesWitness ==
    rCalls = 2 /\ rDoc = 1 /\ rIdle = "raise" /\ rLog[1] = "false"

\* the selector groups whose control the call activated
ActivatedGroups == { kOps[j].at : j \in { k \in 1..Len(kOps) : kOps[k].op \in {"goto", "click"} } }

\* C23: the strategies are tried next control first, then load more, then
\* the pagination form: on a page that shows a visible next control together
\* with a visible load-more control or pagination form (nothing on the page
\* raising), a finished advance call has activated the next control and
\* nothing else.  Violated: the selector list is walked in its written
\* order, where the form patterns and the load-more patterns stand before
\* the later next patterns.
NextControlWinsOverOthers ==
    (/\ kResult \in {"true", "false"}
     /\ \A i \in 1..Len(SelectorKinds) :
            kPage[i].query # "raise" /\ kPage[i].act = "ok" /\ kPage[i].idle = "ok"
     /\ \E i \in 1..Len(SelectorKinds) :
            SelectorKinds[i] = "next" /\ kPage[i].query = "found" /\ kPage[i].visible
     /\ \E i \in 1..Len(SelectorKinds) :
            SelectorKinds[i] # "next" /\ kPage[i].query = "found" /\ kPage[i].visible)
        => (/\ kResult = "true"
            /\ \A i \in ActivatedGroups : SelectorKinds[i] = "next")

\* C24: try_next_page activates only a control that is present and visible;
\* it navigates to the target when the control has an href and clicks it
\* otherwise; the idle wait comes right after an activation that returned,
\* and true is returned only after that idle wait; an absent or hidden
\* control causes neither a goto nor a click.
OnlyVisibleControlActivated ==
    /\ \A j \in 1..Len(kOps) :
          LET c == kPage[kOps[j].at]
          IN  /\ kOps[j].op \in {"goto", "click"} =>
                   /\ c.query = "found" /\ c.visible
                   /\ (kOps[j].op = "goto") <=> c.href
              /\ kOps[j].op = "idle" =>
                   /\ j >= 2
                   /\ kOps[j - 1].op \in {"goto", "click"}
                   /\ kOps[j - 1].at = kOps[j].at
    /\ kResult = "true" =>
          /\ Len(kOps) >= 2
          /\ kOps[Len(kOps)] = [op |-> "idle", at |-> kIdx]
    /\ \A i \in 1..Len(SelectorKinds) :
          (kPage[i].query # "found" \/ ~kPage[i].visible) => i \notin ActivatedGroups

\* a hidden control was passed over, a visible link was navigated to and
\* the call returned true after the idle wait
OnlyVisibleControlActivatedWitness ==
    /\ kResult = "true" /\ kPage[kIdx].href
    /\ \E i \in 1..(kIdx - 1) : kPage[i].query = "found" /\ ~kPage[i].visible
    /\ kOps = <<[op |-> "goto", at |-> kIdx], [op |-> "idle", at |-> kIdx]>>

\* C26: numbered pagination: with p the active page number (1 when the
\* widget has no active item), the link clicked encodes exactly the offset
\* p*10, and when no rel="nofollow" link encodes that offset the call
\* returns false without a click.  Violated: the selector matches
\* "startrow=<p*10>" anywhere in the href, so a link for offset 100 is
\* taken when 10 is expected.
NumberedAdvanceExactOffset ==
    qPc = "done" =>
        /\ qClicked # 0 => qLinks[qClicked].offset = CurrentPage(qActive) * PageSize
        /\ (\A i \in 1..Len(qLinks) :
               ~(qLinks[i].nofollow /\ qLinks[i].offset = CurrentPage(qActive) * PageSize))
             => (qResult = "false" /\ qClicked = 0)

\* the sequence without its k-th member (the whole sequence when k = 0)
Without(cs, k) == [i \in 1..(Len(cs) - (IF k = 0 THEN 0 ELSE 1)) |->
                      IF k # 0 /\ i >= k THEN cs[i + 1] ELSE cs[i]]

\* what a pass of the given kind returns for containers none of which throws
RECURSIVE PassResult(_, _)
PassResult(kind, cs) ==
    IF cs = <<>> THEN <<>>
    ELSE LET before == PassResult(kind, SubSeq(cs, 1, Len(cs) - 1))
             c == cs[Len(cs)]
         IN IF kind = "inline" THEN before \o InlineContainer(c)
            ELSE IF LinksContainer(c) # <<>> /\ ~InSeq(LinksContainer(c)[1], before)
                 THEN before \o LinksContainer(c)
                 ELSE before

\* C30: an error raised while one container is processed is isolated: that
\* container yields no record, every other container is still processed,
\* and the pass returns what it would return for the remaining containers.
ContainerErrorIsolated ==
    pPc \in {"returned", "merged"} =>
        /\ pIdx = Len(pContainers)
        /\ pJobs = PassResult(pKind, Without(pContainers, pFault))

\* the first container threw and the second one was still emitted
ContainerErrorIsolatedWitness ==
    /\ pPc = "returned" /\ pFault = 1 /\ Len(pContainers) = 2
    /\ Len(pJobs) = 1

\* no descendant of the container matches a location pattern
LocationRoleAbsent(c) ==
    \A d \in 1..Len(c.desc) : \A i \in 1..Len(locationSelectors) :
        locationSelectors[i] \notin c.desc[d].sels

\* the title and the link the pass resolves for a container
ResolvedTitle(kind, c) == IF kind = "inline" THEN InlineTitle(c) ELSE Trim(LinksTitle(c))

ResolvedLink(kind, c) == IF kind = "inline" THEN InlineUrl(c) ELSE LinksLinkHref(c)

\* C31: a container whose title and link resolve but which has no location
\* element is emitted, with the empty string as its location; it is not
\* skipped.
MissingLocationEmittedEmpty ==
    \A i \in 1..pIdx :
        LET c == pContainers[i]
        IN (/\ i # pFault
            /\ LocationRoleAbsent(c)
            /\ ResolvedTitle(pKind, c) # <<>>
            /\ ResolvedLink(pKind, c) # <<>>)
           => \E j \in 1..Len(pJobs) :
                 /\ pJobs[j].title = ResolvedTitle(pKind, c)
                 /\ pJobs[j].url = ResolvedLink(pKind, c)
                 /\ pJobs[j].location = <<>>

\* a pass has emitted a record for a container without a location
MissingLocationEmittedEmptyWitness ==
    /\ pPc = "returned" /\ pFault = 0 /\ Len(pContainers) = 1
    /\ LocationRoleAbsent(pContainers[1])
    /\ Len(pJobs) = 1 /\ pJobs[1].location = <<>>

\* the companies the loop body has taken past the resolution of the extractor
PastBuild == { i \in 1..Len(dCompanies) : i < dIdx \/ dPc \in {"closing", "closed"}
                                          \/ (i = dIdx /\ dPc \in {"extract", "export"}) }

RECURSIVE RowsOfCalls(_, _)
RowsOfCalls(calls, n) ==
    IF n = 0 THEN <<>>
    ELSE RowsOfCalls(calls, n - 1) \o SinkRows(calls[n][1], calls[n][2])

\* C33: append semantics of the export sink: after any sequence of
\* append_jobs calls on one ExcelGenerator the CSV file is the header
\* followed by the rows of every call in call order, and a call never
\* removes or replaces a line an earlier call wrote.
SinkAppendsInCallOrder ==
    /\ [](sCalls # <<>> \/ sFile # <<>> =>
             sFile = <<SinkHeader>> \o RowsOfCalls(sCalls, Len(sCalls)))
    /\ [][/\ Len(sFile') >= Len(sFile)
          /\ SubSeq(sFile', 1, Len(sFile)) = sFile]_vars

\* two calls, each with rows, for different companies
SinkAppendsInCallOrderWitness ==
    /\ Len(sCalls) = 2
    /\ sCalls[1][1] # <<>> /\ sCalls[2][1] # <<>>
    /\ sCalls[1][2] # sCalls[2][2]
    /\ Len(sFile) = 1 + Len(sCalls[1][1]) + Len(sCalls[2][1])

\* C34: a run cannot loop for ever: with every wait returning or failing,
\* each pass reads a page index not read before (the index grows by one
\* between two passes), so at most max_pages passes are made, and the call
\* comes to its end.
RunTerminates ==
    /\ [](passes <= max_pages)
    /\ [](pc \in {"extract", "idle", "ready"} =>
             (passes = current_page - 1 /\ current_page <= max_pages))
    /\ [][passes' # passes => (passes' = passes + 1 /\ passes' = current_page)]_vars
    /\ <>(pc = "done" /\ ret # "none")

\* a run of max_pages = 2 passes has returned its list
RunTerminatesWitness ==
    /\ pc = "done" /\ ret = "list" /\ raisedAt = "none"
    /\ max_pages = 2 /\ passes = max_pages /\ current_page = max_pages

\* C35: the first navigation of every run goes to the start URL the driver
\* built from the configuration; no extractor opens another URL instead.
\* Violated: IBMExtractor.extract ignores base_url and opens a URL written
\* in its own code.
FirstNavigationToGivenUrl ==
    \A i \in 1..Len(dCompanies) : dUrl[i] \in {"none", "given"}

ResolvedCompanyReachesSinkOnce ==
    \A i \in PastBuild :
        (dEngine[i] = "specific" /\ (i < dIdx \/ dPc \in {"closing", "closed"})) =>
            /\ i \notin dRejected
            /\ i \notin dFailed =>
                  Cardinality({k \in 1..Len(dHandovers[i]) : dHandovers[i][k] = "driver"}) = 1

\* C36: one call of try_next_page activates at most one control: after an
\* activation no further candidate is tried, also when the idle wait that
\* follows the activation raises.  Stated for pages on which every goto and
\* click itself returns.  Violated: an idle wait that raises is swallowed by
\* the bare except and the loop goes on to the next selector, which can
\* activate a second control.
AtMostOneActivationPerCall ==
    (\A i \in 1..Len(SelectorKinds) : kPage[i].act = "ok")
        => Cardinality({ j \in 1..Len(kOps) : kOps[j].op \in {"goto", "click"} }) <= 1

\* C37: in the engine that uses extract_job_links, a page still not ready
\* after the reload and the second check gives that pass no records and does
\* not end the run: the accumulator stays as it was, nothing is raised, and
\* the loop goes on to the stop-or-advance step of that page.
NotReadyPageKeepsRun ==
    /\ [][notReady' # notReady =>
            /\ variant = "base2"
            /\ jobs' = jobs /\ lastPass' = <<>> /\ passes' = passes + 1
            /\ raisedAt' = "none" /\ ret' = "none"
            /\ pc' = IF current_page >= max_pages THEN "close" ELSE "try_next"]_vars
    /\ [](notReady <= passes)

\* the second page was not ready: the run returned the records of the first
RunSurvivesNotReadyPageWitness ==
    /\ variant = "base2" /\ ret = "list" /\ raisedAt = "none"
    /\ notReady = 1 /\ passes = 2 /\ lastPass = <<>>
    /\ retval # <<>> /\ retval = jobs

====
